---- MODULE Spec2Model ----
(***************************************************************************)
(* State-machine model of ranges::variant<Ts...> (utility/variant.hpp).    *)
(*                                                                         *)
(* The model is of the non-trivial instantiation of every layer of the     *)
(* lifecycle ladder: variant_storage_<false>, variant_destruct_base_<false>*)
(* variant_smf_construct_<false>, variant_smf_assign_<false> and the       *)
(* three-step variant_base::swap_(that, ...).                              *)
(*                                                                         *)
(* A storage cell is <<>> while no object is constructed in it and <<x>>   *)
(* while it holds a constructed alternative of value x.  The constructors, *)
(* assignment operators and swap of the alternatives are user code: each   *)
(* call of one may throw, and the input "thr" of an operation names which  *)
(* of its calls into user code (the 1st, 2nd or 3rd) throws, 0 for none.   *)
(***************************************************************************)
EXTENDS Integers, Sequences, FiniteSets, TLC

\* sizeof...(Ts): the number of alternatives of the variant under test.
NumAlts == 3

\* The values an alternative can hold are 0..MaxVal; 0 is also the
\* value-initialised and the moved-from value.
MaxVal == 1

Alts == 0 .. (NumAlts - 1)

Values == 0 .. MaxVal

\* The variant objects of the program under test.
Vars == {"v1", "v2"}

\* std::size_t is narrowed to 16 bits: SizeMod is the number of its values.
SizeMod == 2 ^ 16

\* static_cast<std::size_t>(-1).
variant_npos == (-1) % SizeMod

\* Which call into user code throws (0: none); swap_ makes up to three.
ThrowSteps == 0 .. 3

\* A union member no object has been constructed in.
Uninit == << >>

\* The inputs of one operation: the throwing step, and the value k that
\* stands for every value the language leaves unspecified (what a moved-from
\* alternative holds, what an assignment that threw has left behind, what an
\* out-of-lifetime read yields).
Inputs == [thr : ThrowSteps, k : Values]

\* The inputs of an operation that makes at most n calls into user code.
InputsUpTo(n) == {in \in Inputs : in.thr <= n}

\* What a move constructor or move assignment leaves in its source:
\* valid but unspecified, possibly the old value.
moved(val, in) == in.k

VARIABLES v, pre, lastOp, failed

vars == <<v, pre, lastOp, failed>>

----------------------------------------------------------------------------
(* variant_base and variant_storage_<false>                                *)

\* variant_base() = default: index_ = -1 and a storage with no member built.
\* Two fields are history, not data of the object: log lists the constructor
\* and destructor calls on the alternatives of this object during the current
\* operation, in order; emplaced is <<I, value>> while the last thing done to
\* the object is a completed emplace<I>(value).  oob says that
\* variant_raw_visit has been called on this storage with an index that is
\* not below the number of dispatch-table entries.
variant_base_default(ub) ==
    [alive |-> TRUE, index_ |-> -1, cell |-> [i \in Alts |-> Uninit], ub |-> ub,
     log |-> << >>, emplaced |-> << >>, oob |-> FALSE]

\* The slot of a variant object that does not exist (yet, or any more).
NoObject(ub) == [variant_base_default(ub) EXCEPT !.alive = FALSE]

\* variant_base::validate(): RANGES_EXPECT(-1 <= index_ && index_ < n).
validate(b) == [b EXCEPT !.ub = @ \/ ~(-1 <= b.index_ /\ b.index_ < NumAlts)]

\* variant_base::index(): validate(), static_cast<std::size_t>(index_).
index(b) == b.index_ % SizeMod

\* variant_base::valueless_by_exception(): validate(), index_ < 0.
valueless_by_exception(b) == b.index_ < 0

\* variant_storage_<false>::clear(i): runs the destructor of member i; the
\* recursion ends in the empty storage, whose clear does nothing.
RECURSIVE storage_clear_(_, _, _)
storage_clear_(b, level, i) ==
    IF level >= NumAlts THEN b
    ELSE IF i = 0
         THEN [b EXCEPT !.cell[level] = Uninit,
                        !.ub = @ \/ b.cell[level] = Uninit,
                        !.log = Append(@, <<"dtor", level>>)]
         ELSE storage_clear_(b, level + 1, i - 1)

storage_clear(b, i) == storage_clear_(b, 0, i)

\* emplace that always builds the head member of the union.
storage_emplace_head(b, I, val) ==
    [b EXCEPT !.cell[0] = <<val>>,
              !.ub = @ \/ (\E j \in Alts : b.cell[j] # Uninit),
              !.log = Append(@, <<"ctor", 0>>)]

\* variant_storage_::emplace(size_t<I>, args): placement-new of member I.
storage_emplace(b, I, val) ==
    [b EXCEPT !.cell[I] = <<val>>,
              !.ub = @ \/ (\E j \in Alts : b.cell[j] # Uninit),
              !.log = Append(@, <<"ctor", I>>)]

\* variant_raw_get<I>(storage).get().get(): the value of member I, which is
\* whatever the build yields when no object lives there.
variant_raw_get(b, I, in) ==
    IF I \in Alts /\ b.cell[I] # Uninit THEN b.cell[I][1] ELSE in.k

\* variant_raw_visit(visitor, index, storage): Dispatch::table[index]; the
\* entry an out-of-bounds index reaches is whatever the build yields.
variant_raw_visit(idx, in) == IF idx < NumAlts THEN idx ELSE in.k % NumAlts

\* variant_base::clear(): destroys the live member, then index_ = -1.
clear(b) == [storage_clear(validate(b), index(b)) EXCEPT !.index_ = -1]

\* variant_base::clear(size_t<I>): RANGES_EXPECT(index() == I), destroy I.
clear_I(b, I) ==
    [storage_clear([b EXCEPT !.ub = @ \/ index(b) # I], I) EXCEPT !.index_ = -1]

\* emplace_ storing a one-based index.
emplace_one_based(b, I, val, throws) ==
    LET c == clear(b) IN
    IF throws
    THEN [self |-> c, threw |-> TRUE]
    ELSE [self |-> [storage_emplace(c, I, val) EXCEPT !.index_ = I + 1],
          threw |-> FALSE]

\* emplace_ without the clear() that destroys the old alternative.
emplace_no_clear(b, I, val, throws) ==
    IF throws
    THEN [self |-> b, threw |-> TRUE]
    ELSE [self |-> [storage_emplace(b, I, val) EXCEPT !.index_ = I],
          threw |-> FALSE]

\* emplace_ that builds the new alternative aside and replaces the old one
\* only once that has succeeded.
emplace_construct_first(b, I, val, throws) ==
    IF throws
    THEN [self |-> b, threw |-> TRUE]
    ELSE [self |-> [storage_emplace(clear(b), I, val) EXCEPT !.index_ = I],
          threw |-> FALSE]

\* emplace_ that assigns to the alternative in place when the variant already
\* holds alternative I, destroying and constructing nothing.
emplace_assign_same(b, I, val, throws) ==
    IF b.index_ = I /\ ~throws
    THEN [self |-> [b EXCEPT !.cell[I] = <<val>>], threw |-> FALSE]
    ELSE LET c == clear(b) IN
         IF throws
         THEN [self |-> c, threw |-> TRUE]
         ELSE [self |-> [storage_emplace(c, I, val) EXCEPT !.index_ = I],
               threw |-> FALSE]

\* variant_base::emplace_(size_t<I>, args): clear, construct, set index_.
emplace_(b, I, val, throws) ==
    LET c == clear(b) IN
    IF throws
    THEN [self |-> c, threw |-> TRUE]
    ELSE [self |-> [storage_emplace(c, I, val) EXCEPT !.index_ = I],
          threw |-> FALSE]

----------------------------------------------------------------------------
(* The recorded outcome of the last operation                              *)

\* op: the operation; t, s: its target and source objects; alt: the
\* alternative it names (-1: none); threw: the call into user code that threw
\* (0: none); bva: bad_variant_access was thrown; path: the branch taken;
\* res: the result (<<>>: none).
Op(name, t, s, alt, threw, bva, path, res) ==
    [op |-> name, t |-> t, s |-> s, alt |-> alt, threw |-> threw,
     bva |-> bva, path |-> path, res |-> res]

\* No operation has been called since the caller looked at the last outcome.
NoOp == Op("none", "v1", "v1", -1, 0, FALSE, "none", << >>)

\* The caller is between two operations.
Idle == lastOp = NoOp

Init ==
    /\ v = [x \in Vars |-> NoObject(FALSE)]
    /\ pre = v
    /\ lastOp = NoOp
    /\ failed = FALSE

----------------------------------------------------------------------------
(* Constructors and destructor                                             *)

\* The in-place constructor without the index_{I} initialiser.
variant_base_in_place_no_index(I, val, ub) ==
    storage_emplace(variant_base_default(ub), I, val)

\* variant_base(size_t<I>, args): index_{I}, storage_{size_t<I>, args}.
variant_base_in_place(I, val, ub) ==
    [storage_emplace(variant_base_default(ub), I, val) EXCEPT !.index_ = I]

\* A default constructor that leaves the base default-initialised, holding
\* no alternative.
DefaultConstructEmpty(t) ==
    /\ Idle
    /\ pre' = v
    /\ ~v[t].alive
    /\ v' = [v EXCEPT ![t] = variant_base_default(@.ub)]
    /\ lastOp' = Op("default_ctor", t, t, 0, 0, FALSE, "construct", << >>)
    /\ UNCHANGED failed

\* variant::variant(): base_t{size_t<0>{}}, a value-initialised first
\* alternative.
DefaultConstruct(t) ==
    /\ Idle
    /\ pre' = v
    /\ ~v[t].alive
    /\ \E thr \in 0 .. 1 :
         /\ v' = [v EXCEPT ![t] = IF thr = 1 THEN @
                                  ELSE variant_base_in_place(0, 0, @.ub)]
         /\ lastOp' = Op("default_ctor", t, t, 0, thr, FALSE, "construct", << >>)
    /\ UNCHANGED failed

\* variant::variant(in_place_index_t<I>, args) and (in_place_type_t<T>, args).
InPlaceConstruct(t, I, val) ==
    /\ Idle
    /\ pre' = v
    /\ ~v[t].alive
    /\ \E thr \in 0 .. 1 :
         /\ v' = [v EXCEPT ![t] = IF thr = 1 THEN @
                                  ELSE variant_base_in_place(I, val, @.ub)]
         /\ lastOp' = Op("in_place_ctor", t, t, I, thr, FALSE, "construct", << >>)
    /\ UNCHANGED failed

\* variant::variant(T && t): the alternative is the one overload resolution
\* selects for T (construct_info<T>), here the alternative the value is of.
ConvertingConstruct(t, I, val) ==
    /\ Idle
    /\ pre' = v
    /\ ~v[t].alive
    /\ \E thr \in 0 .. 1 :
         /\ v' = [v EXCEPT ![t] = IF thr = 1 THEN @
                                  ELSE variant_base_in_place(I, val, @.ub)]
         /\ lastOp' = Op("converting_ctor", t, t, I, thr, FALSE, "construct", << >>)
    /\ UNCHANGED failed

\* The destructor of the trivially destructible case, which runs nothing.
destruct_trivial(b) == [b EXCEPT !.alive = FALSE]

\* variant_destruct_base_<false>::~variant_destruct_base_(): this->clear().
destruct(b) == [clear(b) EXCEPT !.alive = FALSE]

Destroy(t) ==
    /\ Idle
    /\ pre' = v
    /\ v[t].alive
    /\ v' = [v EXCEPT ![t] = destruct(@)]
    /\ lastOp' = Op("dtor", t, t, -1, 0, FALSE, "clear", << >>)
    /\ UNCHANGED failed

----------------------------------------------------------------------------
(* emplace                                                                 *)

\* variant::emplace<I>(args) and emplace<T>(args): emplace_(size_t<I>, args).
Emplace(t, I, val) ==
    /\ Idle
    /\ pre' = v
    /\ v[t].alive
    /\ \E thr \in 0 .. 1 :
         LET r == emplace_(v[t], I, val, thr = 1) IN
         /\ v' = [v EXCEPT ![t] = [r.self EXCEPT !.emplaced =
                                       IF r.threw THEN << >> ELSE <<I, val>>]]
         /\ lastOp' = Op("emplace", t, t, I, thr, FALSE, "construct", << >>)
         /\ failed' = (failed \/ r.threw)

----------------------------------------------------------------------------
(* Visitors                                                                *)

\* The storage handed to variant_raw_visit at index idx, after the thunk has
\* projected its member: a table entry past the end, or a member no object
\* lives in, is an out-of-lifetime access.
raw_read(b, idx, in) ==
    [b EXCEPT !.ub = @ \/ idx >= NumAlts
                        \/ b.cell[variant_raw_visit(idx, in)] = Uninit,
              !.oob = @ \/ idx >= NumAlts]

\* variant_construct_visitor: self_.emplace(size_t<I>, ie.get().get()).
variant_construct_visitor(self, I, val) == storage_emplace(self, I, val)

\* An assign visitor that leaves the target's member as it is.
assign_visitor_keep(self, I, val, throws, in) ==
    [self EXCEPT !.ub = @ \/ self.cell[I] = Uninit]

\* variant_assign_visitor: variant_raw_get<I>(self_).get().get() = ie.get().get().
\* An assignment operator that throws leaves its target with its old value
\* or with whatever it had written so far.
variant_assign_visitor(self, I, val, throws, in) ==
    LET s1 == [self EXCEPT !.ub = @ \/ self.cell[I] = Uninit] IN
    IF throws
    THEN [s1 EXCEPT !.cell[I] = <<in.k>>]
    ELSE [s1 EXCEPT !.cell[I] = <<val>>]

\* The two-step visitor clearing self_ before it copies the source.
two_step_clear_first(self, I, val, in) ==
    LET c == clear(self) IN
    IF in.thr = 1 \/ in.thr = 2
    THEN [self |-> c, threw |-> in.thr]
    ELSE [self |-> [storage_emplace(c, I, val) EXCEPT !.index_ = I],
          threw |-> 0]

\* The two-step visitor setting self_.index_ before the move out of tmp.
two_step_index_first(self, I, val, in) ==
    IF in.thr = 1
    THEN [self |-> self, threw |-> 1]
    ELSE LET c == [clear(self) EXCEPT !.index_ = I] IN
         IF in.thr = 2
         THEN [self |-> c, threw |-> 2]
         ELSE [self |-> storage_emplace(c, I, val), threw |-> 0]

\* The two-step visitor clearing self_ only after the move out of tmp.
two_step_clear_late(self, I, val, in) ==
    IF in.thr = 1 \/ in.thr = 2
    THEN [self |-> self, threw |-> in.thr]
    ELSE [self |-> [storage_emplace(clear(self), I, val) EXCEPT !.index_ = I],
          threw |-> 0]

\* variant_two_step_visitor: auto tmp = ie.get(); self_.clear();
\* self_.storage().emplace(size_t<I>, move(tmp).get()); self_.index_ = I.
\* thr = 1: the copy into tmp throws; thr = 2: the move out of tmp throws.
variant_two_step_visitor(self, I, val, in) ==
    IF in.thr = 1
    THEN [self |-> self, threw |-> 1]
    ELSE LET c == clear(self) IN
         IF in.thr = 2
         THEN [self |-> c, threw |-> 2]
         ELSE [self |-> [storage_emplace(c, I, val) EXCEPT !.index_ = I],
               threw |-> 0]

\* An emplace visitor that clears its source before the target is emplaced.
emplace_visitor_clear_first(source, target, idx, throws, in) ==
    LET I == variant_raw_visit(idx, in)
        val == variant_raw_get(source, I, in)
        src == clear_I(raw_read(source, idx, in), I)
        e == emplace_(target, I, val, throws)
    IN  [source |-> src, target |-> e.self, threw |-> e.threw]

\* variant_emplace_visitor{source_, target_}:
\* target_.emplace_(size_t<I>, e.get().get()); source_.clear(size_t<I>).
variant_emplace_visitor(source, target, idx, throws, in) ==
    LET I == variant_raw_visit(idx, in)
        val == variant_raw_get(source, I, in)
        src == raw_read(source, idx, in)
        e == emplace_(target, I, val, throws)
    IN  IF e.threw
        THEN [source |-> src, target |-> e.self, threw |-> TRUE]
        ELSE [source |-> clear_I(src, I), target |-> e.self, threw |-> FALSE]

\* variant_swap_same_visitor: ranges::swap(ie.get().get(),
\* variant_raw_get<I>(self_).get().get()).  A swap that throws has moved
\* nothing yet or has left the first operand moved from.
variant_swap_same_visitor(self, that, idx, throws, in) ==
    LET I == variant_raw_visit(idx, in)
        a == variant_raw_get(self, I, in)
        b == variant_raw_get(that, I, in)
        s1 == [self EXCEPT !.ub = @ \/ self.cell[I] = Uninit]
        t1 == raw_read(that, idx, in)
    IN  IF throws
        THEN [self |-> s1, that |-> [t1 EXCEPT !.cell[I] = <<moved(b, in)>>]]
        ELSE [self |-> [s1 EXCEPT !.cell[I] = <<b>>],
              that |-> [t1 EXCEPT !.cell[I] = <<a>>]]

----------------------------------------------------------------------------
(* Copy and move construction (variant_smf_construct_<false>)              *)

\* The copy constructor without the valueless_by_exception() test.
smf_copy_construct_unchecked(that, ub, throws, in) ==
    LET self == variant_base_default(ub)
        i == that.index_
        I == variant_raw_visit(index(that), in)
        val == variant_raw_get(that, I, in)
        src == raw_read(that, index(that), in)
    IN  IF throws
        THEN [self |-> NoObject(ub), that |-> src, threw |-> 1]
        ELSE [self |-> [variant_construct_visitor(self, I, val)
                           EXCEPT !.index_ = i],
              that |-> src, threw |-> 0]

\* variant_smf_construct_(variant_smf_construct_ const &that).
smf_copy_construct(that, ub, throws, in) ==
    LET self == variant_base_default(ub) IN
    IF ~valueless_by_exception(that)
    THEN LET i == that.index_
             I == variant_raw_visit(index(that), in)
             val == variant_raw_get(that, I, in)
             src == raw_read(that, index(that), in)
         IN  IF throws
             THEN [self |-> NoObject(ub), that |-> src, threw |-> 1]
             ELSE [self |-> [variant_construct_visitor(self, I, val)
                                EXCEPT !.index_ = i],
                   that |-> src, threw |-> 0]
    ELSE [self |-> self, that |-> that, threw |-> 0]

\* A move constructor that takes the alternative out of its source and leaves
\* the source holding nothing.
smf_move_construct_steal(that, ub, throws, in) ==
    LET self == variant_base_default(ub) IN
    IF ~valueless_by_exception(that)
    THEN LET i == that.index_
             I == variant_raw_visit(index(that), in)
             val == variant_raw_get(that, I, in)
             src == raw_read(that, index(that), in)
         IN  IF throws
             THEN [self |-> NoObject(ub), that |-> src, threw |-> 1]
             ELSE [self |-> [variant_construct_visitor(self, I, val)
                                EXCEPT !.index_ = i],
                   that |-> clear(src),
                   threw |-> 0]
    ELSE [self |-> self, that |-> that, threw |-> 0]

\* variant_smf_construct_(variant_smf_construct_ && that).
smf_move_construct(that, ub, throws, in) ==
    LET self == variant_base_default(ub) IN
    IF ~valueless_by_exception(that)
    THEN LET i == that.index_
             I == variant_raw_visit(index(that), in)
             val == variant_raw_get(that, I, in)
             src == raw_read(that, index(that), in)
         IN  IF throws
             THEN [self |-> NoObject(ub), that |-> src, threw |-> 1]
             ELSE [self |-> [variant_construct_visitor(self, I, val)
                                EXCEPT !.index_ = i],
                   that |-> [src EXCEPT !.cell[I] = <<moved(val, in)>>],
                   threw |-> 0]
    ELSE [self |-> self, that |-> that, threw |-> 0]

CopyConstruct(t, s) ==
    /\ Idle
    /\ pre' = v
    /\ ~v[t].alive /\ v[s].alive
    /\ \E in \in InputsUpTo(1) :
         LET r == smf_copy_construct(v[s], v[t].ub, in.thr = 1, in) IN
         /\ v' = [v EXCEPT ![t] = r.self, ![s] = r.that]
         /\ lastOp' = Op("copy_ctor", t, s, -1, r.threw, FALSE, "construct", << >>)
    /\ UNCHANGED failed

MoveConstruct(t, s) ==
    /\ Idle
    /\ pre' = v
    /\ ~v[t].alive /\ v[s].alive
    /\ \E in \in InputsUpTo(1) :
         LET r == smf_move_construct(v[s], v[t].ub, in.thr = 1, in) IN
         /\ v' = [v EXCEPT ![t] = r.self, ![s] = r.that]
         /\ lastOp' = Op("move_ctor", t, s, -1, r.threw, FALSE, "construct", << >>)
    /\ UNCHANGED failed

----------------------------------------------------------------------------
(* Assignment (variant_smf_assign_<false>, variant::operator=(T &&))       *)

\* The objects after an operation on target t and source s; when both name
\* one object the target's state is the object's state.
Put(t, s, self, that) ==
    [x \in Vars |->
        IF x = t THEN [self EXCEPT !.ub = @ \/ (t = s /\ that.ub),
                                   !.oob = @ \/ (t = s /\ that.oob)]
        ELSE IF x = s THEN that
        ELSE v[x]]

\* Copy assignment that goes through the two-step visitor for equal indices
\* as well: the live alternative is destroyed and constructed anew.
copy_assign_reconstruct(self, that, in) ==
    LET i == that.index_ IN
    IF i < 0
    THEN IF self.index_ = i
         THEN [self |-> self, that |-> that, threw |-> 0, path |-> "none"]
         ELSE [self |-> clear(self), that |-> that, threw |-> 0, path |-> "clear"]
    ELSE LET I == variant_raw_visit(index(that), in)
             val == variant_raw_get(that, I, in)
             r == variant_two_step_visitor(self, I, val, in)
         IN [self |-> r.self,
             that |-> raw_read(that, index(that), in),
             threw |-> r.threw,
             path |-> IF self.index_ = i THEN "assign" ELSE "two_step"]

\* Copy assignment that leaves the target alone when the source is valueless.
copy_assign_skip_valueless(self, that, in) ==
    LET i == that.index_ IN
    IF i < 0
    THEN [self |-> self, that |-> that, threw |-> 0, path |-> "none"]
    ELSE LET I == variant_raw_visit(index(that), in)
             val == variant_raw_get(that, I, in)
             r == variant_two_step_visitor(self, I, val, in)
         IN IF self.index_ = i
            THEN [self |-> variant_assign_visitor(self, I, val, in.thr = 1, in),
                  that |-> raw_read(that, index(that), in),
                  threw |-> IF in.thr = 1 THEN 1 ELSE 0,
                  path |-> "assign"]
            ELSE [self |-> r.self,
                  that |-> raw_read(that, index(that), in),
                  threw |-> r.threw,
                  path |-> "two_step"]

\* variant_smf_assign_::operator=(variant_smf_assign_ const &that).
copy_assign(self, that, in) ==
    LET i == that.index_ IN
    IF self.index_ = i
    THEN IF i >= 0
         THEN LET I == variant_raw_visit(index(that), in)
                  val == variant_raw_get(that, I, in)
             IN [self |-> variant_assign_visitor(self, I, val, in.thr = 1, in),
                 that |-> raw_read(that, index(that), in),
                 threw |-> IF in.thr = 1 THEN 1 ELSE 0,
                 path |-> "assign"]
         ELSE [self |-> self, that |-> that, threw |-> 0, path |-> "none"]
    ELSE IF i < 0
         THEN [self |-> clear(self), that |-> that, threw |-> 0, path |-> "clear"]
         ELSE LET I == variant_raw_visit(index(that), in)
                  val == variant_raw_get(that, I, in)
                  r == variant_two_step_visitor(self, I, val, in)
              IN [self |-> r.self,
                  that |-> raw_read(that, index(that), in),
                  threw |-> r.threw,
                  path |-> "two_step"]

\* Move assignment through a scratch slot: for different indices the source
\* is first moved into a temporary, and self is cleared only after that.
move_assign_scratch(self, that, same, in) ==
    LET i == that.index_ IN
    IF self.index_ = i
    THEN IF i >= 0
         THEN LET I == variant_raw_visit(index(that), in)
                  val == variant_raw_get(that, I, in)
                  src == raw_read(that, index(that), in)
             IN [self |-> variant_assign_visitor(self, I,
                              IF same THEN moved(val, in) ELSE val,
                              in.thr = 1, in),
                 that |-> IF in.thr = 1 THEN src
                          ELSE [src EXCEPT !.cell[I] = <<moved(val, in)>>],
                 threw |-> IF in.thr = 1 THEN 1 ELSE 0,
                 path |-> "assign"]
         ELSE [self |-> self, that |-> that, threw |-> 0, path |-> "none"]
    ELSE IF i >= 0
         THEN LET I == variant_raw_visit(index(that), in)
                  val == variant_raw_get(that, I, in)
                  src == raw_read(that, index(that), in)
              IN IF in.thr = 1
                 THEN [self |-> self, that |-> src, threw |-> 1, path |-> "scratch"]
                 ELSE [self |-> [variant_construct_visitor(clear(self), I, val)
                                    EXCEPT !.index_ = i],
                       that |-> [src EXCEPT !.cell[I] = <<moved(val, in)>>],
                       threw |-> 0, path |-> "scratch"]
         ELSE [self |-> clear(self), that |-> that, threw |-> 0, path |-> "clear"]

\* Move assignment without the clear() before the construction.
move_assign_no_clear(self, that, same, in) ==
    LET i == that.index_ IN
    IF self.index_ = i
    THEN IF i >= 0
         THEN LET I == variant_raw_visit(index(that), in)
                  val == variant_raw_get(that, I, in)
                  src == raw_read(that, index(that), in)
             IN [self |-> variant_assign_visitor(self, I,
                              IF same THEN moved(val, in) ELSE val,
                              in.thr = 1, in),
                 that |-> IF in.thr = 1 THEN src
                          ELSE [src EXCEPT !.cell[I] = <<moved(val, in)>>],
                 threw |-> IF in.thr = 1 THEN 1 ELSE 0,
                 path |-> "assign"]
         ELSE [self |-> self, that |-> that, threw |-> 0, path |-> "none"]
    ELSE IF i >= 0
         THEN LET I == variant_raw_visit(index(that), in)
                  val == variant_raw_get(that, I, in)
                  src == raw_read(that, index(that), in)
              IN IF in.thr = 1
                 THEN [self |-> self, that |-> src, threw |-> 1, path |-> "direct"]
                 ELSE [self |-> [variant_construct_visitor(self, I, val)
                                    EXCEPT !.index_ = i],
                       that |-> [src EXCEPT !.cell[I] = <<moved(val, in)>>],
                       threw |-> 0, path |-> "direct"]
         ELSE [self |-> clear(self), that |-> that, threw |-> 0, path |-> "clear"]

\* variant_smf_assign_::operator=(variant_smf_assign_ && that); same says
\* that both operands are one object.
move_assign(self, that, same, in) ==
    LET i == that.index_ IN
    IF self.index_ = i
    THEN IF i >= 0
         THEN LET I == variant_raw_visit(index(that), in)
                  val == variant_raw_get(that, I, in)
                  src == raw_read(that, index(that), in)
             IN [self |-> variant_assign_visitor(self, I,
                              IF same THEN moved(val, in) ELSE val,
                              in.thr = 1, in),
                 that |-> IF in.thr = 1 THEN src
                          ELSE [src EXCEPT !.cell[I] = <<moved(val, in)>>],
                 threw |-> IF in.thr = 1 THEN 1 ELSE 0,
                 path |-> "assign"]
         ELSE [self |-> self, that |-> that, threw |-> 0, path |-> "none"]
    ELSE LET c == clear(self) IN
         IF i >= 0
         THEN LET I == variant_raw_visit(index(that), in)
                  val == variant_raw_get(that, I, in)
                  src == raw_read(that, index(that), in)
              IN IF in.thr = 1
                 THEN [self |-> c, that |-> src, threw |-> 1, path |-> "direct"]
                 ELSE [self |-> [variant_construct_visitor(c, I, val)
                                    EXCEPT !.index_ = i],
                       that |-> [src EXCEPT !.cell[I] = <<moved(val, in)>>],
                       threw |-> 0, path |-> "direct"]
         ELSE [self |-> c, that |-> that, threw |-> 0, path |-> "clear"]

\* variant::operator=(T && t): assigns in place when the alternative selected
\* for T is the live one, otherwise emplace_.
converting_assign(self, I, val, in) ==
    IF I = index(self)
    THEN [self |-> variant_assign_visitor(self, I, val, in.thr = 1, in),
          threw |-> IF in.thr = 1 THEN 1 ELSE 0, path |-> "assign"]
    ELSE LET e == emplace_(self, I, val, in.thr = 1) IN
         [self |-> e.self, threw |-> IF e.threw THEN 1 ELSE 0,
          path |-> "construct"]

CopyAssign(t, s) ==
    /\ Idle
    /\ pre' = v
    /\ v[t].alive /\ v[s].alive
    /\ \E in \in InputsUpTo(2) :
         LET r == copy_assign(v[t], v[s], in) IN
         /\ v' = Put(t, s, r.self, r.that)
         /\ lastOp' = Op("copy_assign", t, s, -1, r.threw, FALSE, r.path, << >>)
         /\ failed' = (failed \/ r.threw # 0)

MoveAssign(t, s) ==
    /\ Idle
    /\ pre' = v
    /\ v[t].alive /\ v[s].alive
    /\ \E in \in InputsUpTo(1) :
         LET r == move_assign(v[t], v[s], t = s, in) IN
         /\ v' = Put(t, s, r.self, r.that)
         /\ lastOp' = Op("move_assign", t, s, -1, r.threw, FALSE, r.path, << >>)
         /\ failed' = (failed \/ r.threw # 0)

ConvertingAssign(t, I, val) ==
    /\ Idle
    /\ pre' = v
    /\ v[t].alive
    /\ \E in \in InputsUpTo(1) :
         LET r == converting_assign(v[t], I, val, in) IN
         /\ v' = [v EXCEPT ![t] = r.self]
         /\ lastOp' = Op("converting_assign", t, t, I, r.threw, FALSE, r.path, << >>)
         /\ failed' = (failed \/ r.threw # 0)

----------------------------------------------------------------------------
(* swap                                                                    *)

\* The exchange without its third step: tmp is never moved into *this.
swap_third_skip(a, b, n, in) ==
    [self |-> b.source, that |-> b.target, tmp |-> a.target, threw |-> 0]

\* variant_base::swap_, third step: tmp's alternative (if tmp holds one) is
\* emplaced in *this.  a and b are the outcomes of the first two steps, n the
\* number of calls into user code made so far.
swap_third(a, b, n, in) ==
    IF valueless_by_exception(a.target)
    THEN [self |-> b.source, that |-> b.target, tmp |-> a.target, threw |-> 0]
    ELSE LET c == variant_emplace_visitor(a.target, b.source, index(a.target),
                                          in.thr = n + 1, in)
         IN  [self |-> c.target, that |-> b.target, tmp |-> c.source,
              threw |-> IF c.threw THEN n + 1 ELSE 0]

\* A second step that, when its move throws, gives that back the alternative
\* the first step took out of it.
swap_second_restore(a, b, n, in) ==
    IF b.threw
    THEN [self |-> b.source, that |-> a.target, tmp |-> b.target, threw |-> n]
    ELSE swap_third(a, b, n, in)

\* variant_base::swap_, second step: *this's alternative (if it holds one) is
\* emplaced in that; an exception leaves tmp as the first step made it.
swap_second_done(a, b, n, in) ==
    IF b.threw
    THEN [self |-> b.source, that |-> b.target, tmp |-> a.target, threw |-> n]
    ELSE swap_third(a, b, n, in)

swap_second(s0, a, n, in) ==
    IF valueless_by_exception(s0)
    THEN swap_second_done(a, [source |-> s0, target |-> a.source,
                              threw |-> FALSE], n, in)
    ELSE swap_second_done(a, variant_emplace_visitor(s0, a.source, index(s0),
                                                     in.thr = n + 1, in),
                          n + 1, in)

\* variant_base::swap_, first step: that's alternative (if it holds one) is
\* emplaced in tmp.
swap_first_done(s0, a, n, in) ==
    IF a.threw
    THEN [self |-> s0, that |-> a.source, tmp |-> a.target, threw |-> 1]
    ELSE swap_second(s0, a, n, in)

\* variant_base::swap_(that, ...): the three-step exchange through a local
\* variant_base tmp.  The calls into user code are counted as they are made:
\* a step that is skipped makes none.
swap_(self, that, in) ==
    IF valueless_by_exception(that)
    THEN swap_first_done(validate(self),
                         [source |-> that, target |-> variant_base_default(FALSE),
                          threw |-> FALSE], 0, in)
    ELSE swap_first_done(validate(self),
                         variant_emplace_visitor(that, variant_base_default(FALSE),
                                                 index(that), in.thr = 1, in),
                         1, in)

\* variant_base::swap(that): swap_(that, 42), for alternatives that are not
\* trivially copyable the three-step overload.
base_swap(r) ==
    [self |-> r.self, that |-> r.that, tmp |-> r.tmp, threw |-> r.threw,
     path |-> "three_step"]

\* swap_impl going through the three-step exchange whatever the indices.
swap_impl_always_base(self, that, in) == base_swap(swap_(self, that, in))

\* variant::swap_impl(that, ...): element-wise swap for equal indices,
\* base_t::swap(that) otherwise.
swap_impl(self, that, in) ==
    IF index(self) = index(that)
    THEN IF ~valueless_by_exception(that)
         THEN LET r == variant_swap_same_visitor(self, that, index(that),
                                                 in.thr = 1, in)
              IN [self |-> r.self, that |-> r.that,
                  tmp |-> variant_base_default(FALSE),
                  threw |-> IF in.thr = 1 THEN 1 ELSE 0, path |-> "same"]
         ELSE [self |-> self, that |-> that,
               tmp |-> variant_base_default(FALSE), threw |-> 0, path |-> "none"]
    ELSE base_swap(swap_(self, that, in))

\* The program state after variant::swap(that) returned or threw.  tmp is a
\* variant_base, which has no destructor: an alternative left in it stays
\* constructed (res = <<1>>).
swap_done(t, s, r) ==
    /\ v' = IF t = s
            THEN [v EXCEPT ![t] = [r.self EXCEPT
                                      !.ub = @ \/ r.that.ub \/ r.tmp.ub,
                                      !.oob = @ \/ r.that.oob \/ r.tmp.oob]]
            ELSE Put(t, s, [r.self EXCEPT !.ub = @ \/ r.tmp.ub,
                                          !.oob = @ \/ r.tmp.oob], r.that)
    /\ lastOp' = Op("swap", t, s, -1, r.threw, FALSE, r.path,
                    IF \E j \in Alts : r.tmp.cell[j] # Uninit
                    THEN <<1>> ELSE <<0>>)
    /\ failed' = (failed \/ r.threw # 0)

\* variant::swap(that).
Swap(t, s) ==
    /\ Idle
    /\ pre' = v
    /\ v[t].alive /\ v[s].alive
    /\ \E in \in InputsUpTo(3) : swap_done(t, s, swap_impl(v[t], v[s], in))

----------------------------------------------------------------------------
(* Checked and unchecked access, visitation, relational operators          *)

\* get_unchecked<I>(v): RANGES_EXPECT(I == v.index()), variant_raw_get<I>.
get_unchecked(b, I) ==
    [b EXCEPT !.ub = @ \/ I # index(b) \/ b.cell[I] = Uninit]

\* get<I> without the index test.
get_without_test(b, I, in) ==
    [self |-> get_unchecked(b, I), bva |-> FALSE,
     res |-> <<variant_raw_get(b, I, in)>>]

\* get<I>(v): throws bad_variant_access unless I == v.index().
get(b, I, in) ==
    IF I # index(b)
    THEN [self |-> b, bva |-> TRUE, res |-> << >>]
    ELSE [self |-> get_unchecked(b, I), bva |-> FALSE,
          res |-> <<variant_raw_get(b, I, in)>>]

\* get_if<I>(&v): v && v->index() == I ? addressof(get_unchecked<I>(*v))
\* : nullptr.  p tells whether the pointer v is non-null, b is what it points
\* at.  The result <<>> is the null pointer, <<x>> points at value x.
get_if_no_index_test(p, b, I, in) ==
    IF p
    THEN [self |-> get_unchecked(b, I), res |-> <<variant_raw_get(b, I, in)>>]
    ELSE [self |-> b, res |-> << >>]

get_if(p, b, I, in) ==
    IF p /\ index(b) = I
    THEN [self |-> get_unchecked(b, I), res |-> <<variant_raw_get(b, I, in)>>]
    ELSE [self |-> b, res |-> << >>]

\* variant_canonical_index(first): throws bad_variant_access when first is
\* valueless, otherwise first.index() * 1 + 0.
variant_canonical_index(b) ==
    IF valueless_by_exception(b)
    THEN [bva |-> TRUE, index |-> 0]
    ELSE [bva |-> FALSE, index |-> index(b) * 1 + 0]

\* visit_i(visitor, v) with the visitor that returns what it is given: the
\* index and the value of the alternative the thunk extracts.
visit_i(b, in) ==
    LET ci == variant_canonical_index(b) IN
    IF ci.bva
    THEN [self |-> b, bva |-> TRUE, res |-> << >>]
    ELSE LET I == variant_raw_visit(ci.index, in) IN
         [self |-> raw_read(b, ci.index, in), bva |-> FALSE,
          res |-> <<I, variant_raw_get(b, I, in)>>]

\* A product of sizes that leaves the last index out of the count.
total_alternatives_short == NumAlts - 1

\* variant_total_alternatives<Rest...> for one further variant: its size.
variant_total_alternatives == NumAlts

\* variant_ordinal_vectors<V1, V2>: the index vectors of the table's entries,
\* the first variant's index the most significant.
variant_ordinal_vectors ==
    [k \in 0 .. (NumAlts * NumAlts - 1) |-> <<k \div NumAlts, k % NumAlts>>]

\* The canonical index testing only the first variant for valuelessness.
canonical_index_first_only(first, rest) ==
    IF valueless_by_exception(first)
    THEN [bva |-> TRUE, index |-> 0]
    ELSE [bva |-> FALSE,
          index |-> index(first) * variant_total_alternatives + index(rest)]

\* The canonical index with the last variant's index the most significant.
canonical_index_transposed(first, rest) ==
    IF valueless_by_exception(first) \/ valueless_by_exception(rest)
    THEN [bva |-> TRUE, index |-> 0]
    ELSE [bva |-> FALSE,
          index |-> index(rest) * variant_total_alternatives + index(first)]

\* variant_canonical_index(first, rest): throws bad_variant_access when first
\* is valueless, otherwise first.index() * size + variant_canonical_index(rest).
variant_canonical_index2(first, rest) ==
    IF valueless_by_exception(first)
    THEN [bva |-> TRUE, index |-> 0]
    ELSE LET r == variant_canonical_index(rest) IN
         [bva |-> r.bva,
          index |-> index(first) * variant_total_alternatives + r.index]

\* variant_raw_visit(visitor, index, vs1, vs2): the index vector of
\* Dispatch::table[index]; the entry an out-of-bounds index reaches is
\* whatever the build yields.
variant_raw_visit2(idx, in) ==
    IF idx < NumAlts * NumAlts
    THEN variant_ordinal_vectors[idx]
    ELSE variant_ordinal_vectors[in.k % (NumAlts * NumAlts)]

\* variant_dispatch1 for the index vector iv: the visitor is called once, with
\* member iv[1] of the first storage and member iv[2] of the second.
variant_dispatch1(x, y, idx, iv, in) ==
    [x |-> [x EXCEPT !.ub = @ \/ idx >= NumAlts * NumAlts
                             \/ x.cell[iv[1]] = Uninit,
                     !.oob = @ \/ idx >= NumAlts * NumAlts],
     y |-> [y EXCEPT !.ub = @ \/ idx >= NumAlts * NumAlts
                             \/ y.cell[iv[2]] = Uninit,
                     !.oob = @ \/ idx >= NumAlts * NumAlts],
     bva |-> FALSE,
     res |-> << <<iv[1], variant_raw_get(x, iv[1], in),
                  iv[2], variant_raw_get(y, iv[2], in)>> >>]

\* visit_i(visitor, x, y) with the visitor that returns what it is given.  res
\* holds one entry for each call of the visitor: the indices and values of
\* its two arguments.
visit_i2(x, y, in) ==
    LET ci == variant_canonical_index2(x, y) IN
    IF ci.bva
    THEN [x |-> x, y |-> y, bva |-> TRUE, res |-> << >>]
    ELSE variant_dispatch1(x, y, ci.index, variant_raw_visit2(ci.index, in), in)

\* variant_relop_visitor<Op>{x}(y's member I): Op{}(x's member I, y's member I).
variant_relop_visitor(x, y, idx, in) ==
    LET I == variant_raw_visit(idx, in) IN
    [a |-> variant_raw_get(x, I, in), b |-> variant_raw_get(y, I, in),
     x |-> [x EXCEPT !.ub = @ \/ x.cell[I] = Uninit],
     y |-> raw_read(y, idx, in)]

\* operator== visiting whenever the indices are equal, valueless or not.
variant_equal_unguarded(x, y, in) ==
    IF index(x) = index(y)
    THEN LET r == variant_relop_visitor(x, y, index(x), in) IN
         [x |-> r.x, y |-> r.y, res |-> r.a = r.b]
    ELSE [x |-> x, y |-> y, res |-> FALSE]

\* operator==(x, y).
variant_equal(x, y, in) ==
    IF index(x) = index(y)
    THEN IF valueless_by_exception(x)
         THEN [x |-> x, y |-> y, res |-> TRUE]
         ELSE LET r == variant_relop_visitor(x, y, index(x), in) IN
              [x |-> r.x, y |-> r.y, res |-> r.a = r.b]
    ELSE [x |-> x, y |-> y, res |-> FALSE]

\* operator< comparing index() before anything else: variant_npos, the index
\* of a valueless variant, is then the greatest.
variant_less_by_index(x, y, in) ==
    IF index(x) < index(y) THEN [x |-> x, y |-> y, res |-> TRUE]
    ELSE IF index(y) < index(x) THEN [x |-> x, y |-> y, res |-> FALSE]
    ELSE IF valueless_by_exception(x) THEN [x |-> x, y |-> y, res |-> FALSE]
    ELSE LET r == variant_relop_visitor(x, y, index(x), in) IN
         [x |-> r.x, y |-> r.y, res |-> r.a < r.b]

\* operator<(x, y).
variant_less(x, y, in) ==
    IF valueless_by_exception(y) THEN [x |-> x, y |-> y, res |-> FALSE]
    ELSE IF valueless_by_exception(x) THEN [x |-> x, y |-> y, res |-> TRUE]
    ELSE IF index(x) < index(y) THEN [x |-> x, y |-> y, res |-> TRUE]
    ELSE IF index(y) < index(x) THEN [x |-> x, y |-> y, res |-> FALSE]
    ELSE LET r == variant_relop_visitor(x, y, index(x), in) IN
         [x |-> r.x, y |-> r.y, res |-> r.a < r.b]

\* operator!= without the test that keeps a valueless x from being visited.
variant_not_equal_unguarded(x, y, in) ==
    IF index(x) # index(y) THEN [x |-> x, y |-> y, res |-> TRUE]
    ELSE LET r == variant_relop_visitor(x, y, index(x), in) IN
         [x |-> r.x, y |-> r.y, res |-> r.a # r.b]

\* operator!=(x, y).
variant_not_equal(x, y, in) ==
    IF index(x) # index(y) THEN [x |-> x, y |-> y, res |-> TRUE]
    ELSE IF valueless_by_exception(x) THEN [x |-> x, y |-> y, res |-> FALSE]
    ELSE LET r == variant_relop_visitor(x, y, index(x), in) IN
         [x |-> r.x, y |-> r.y, res |-> r.a # r.b]

\* operator>(x, y): y < x.
variant_greater(x, y, in) ==
    LET r == variant_less(y, x, in) IN [x |-> r.y, y |-> r.x, res |-> r.res]

\* operator<=(x, y): !(y < x).
variant_less_equal(x, y, in) ==
    LET r == variant_less(y, x, in) IN [x |-> r.y, y |-> r.x, res |-> ~r.res]

\* operator>=(x, y): !(x < y).
variant_greater_equal(x, y, in) ==
    LET r == variant_less(x, y, in) IN [x |-> r.x, y |-> r.y, res |-> ~r.res]

Bit(b) == IF b THEN 1 ELSE 0

Get(t, I) ==
    /\ Idle
    /\ pre' = v
    /\ v[t].alive
    /\ \E in \in InputsUpTo(0) :
         LET r == get(v[t], I, in) IN
         /\ v' = [v EXCEPT ![t] = r.self]
         /\ lastOp' = Op("get", t, t, I, 0, r.bva, "read", r.res)
    /\ UNCHANGED failed

GetIf(t, I) ==
    /\ Idle
    /\ pre' = v
    /\ \E p \in BOOLEAN, in \in InputsUpTo(0) :
         LET r == get_if(p, v[t], I, in) IN
         /\ p => v[t].alive
         /\ v' = [v EXCEPT ![t] = r.self]
         /\ lastOp' = Op("get_if", t, t, I, 0, FALSE,
                         IF p THEN "read" ELSE "null", r.res)
    /\ UNCHANGED failed

Visit(t) ==
    /\ Idle
    /\ pre' = v
    /\ v[t].alive
    /\ \E in \in InputsUpTo(0) :
         LET r == visit_i(v[t], in) IN
         /\ v' = [v EXCEPT ![t] = r.self]
         /\ lastOp' = Op("visit", t, t, -1, 0, r.bva, "read", r.res)
    /\ UNCHANGED failed

Visit2(t, s) ==
    /\ Idle
    /\ pre' = v
    /\ v[t].alive /\ v[s].alive
    /\ \E in \in InputsUpTo(0) :
         LET r == visit_i2(v[t], v[s], in) IN
         /\ v' = Put(t, s, r.x, r.y)
         /\ lastOp' = Op("visit2", t, s, -1, 0, r.bva, "read", r.res)
    /\ UNCHANGED failed

\* Bitwise exclusive or of two std::size_t values.
RECURSIVE Xor(_, _)
Xor(a, b) ==
    IF a = 0 /\ b = 0
    THEN 0
    ELSE ((a + b) % 2) + 2 * Xor(a \div 2, b \div 2)

\* variant_hash_visitor: std::hash<T>{}(t); for the integral alternatives of
\* the tests std::hash returns its argument converted to std::size_t.
variant_hash_visitor(x) == x % SizeMod

\* The low bits of static_cast<size_t>(0x9e3779b9).
HashMagic == 31161

\* A hash that combines the index with the hash of member 0 without asking
\* whether the variant is valueless.
variant_hash_unguarded(b, in) ==
    LET seed == index(b)
        I == variant_raw_visit(seed, in)
        value == variant_hash_visitor(variant_raw_get(b, I, in))
    IN  [self |-> raw_read(b, seed, in),
         res |-> <<Xor(seed, (value + HashMagic + ((seed * 64) % SizeMod)
                              + (seed \div 4)) % SizeMod)>>]

\* std::hash<variant>::operator(): the index, combined with the hash of the
\* alternative unless the variant is valueless.
variant_hash(b, in) ==
    IF valueless_by_exception(b)
    THEN [self |-> b, res |-> <<index(b)>>]
    ELSE LET seed == index(b)
             r == visit_i(b, in)
             value == variant_hash_visitor(r.res[2])
         IN  [self |-> r.self,
              res |-> <<Xor(seed, (value + HashMagic + ((seed * 64) % SizeMod)
                                   + (seed \div 4)) % SizeMod)>>]

Hash(t) ==
    /\ Idle
    /\ pre' = v
    /\ v[t].alive
    /\ \E in \in InputsUpTo(0) :
         LET r == variant_hash(v[t], in) IN
         /\ v' = [v EXCEPT ![t] = r.self]
         /\ lastOp' = Op("hash", t, t, -1, 0, FALSE, "read", r.res)
    /\ UNCHANGED failed

Equal(t, s) ==
    /\ Idle
    /\ pre' = v
    /\ v[t].alive /\ v[s].alive
    /\ \E in \in InputsUpTo(0) :
         LET r == variant_equal(v[t], v[s], in) IN
         /\ v' = Put(t, s, r.x, r.y)
         /\ lastOp' = Op("equal", t, s, -1, 0, FALSE, "read", <<Bit(r.res)>>)
    /\ UNCHANGED failed

Less(t, s) ==
    /\ Idle
    /\ pre' = v
    /\ v[t].alive /\ v[s].alive
    /\ \E in \in InputsUpTo(0) :
         LET r == variant_less(v[t], v[s], in) IN
         /\ v' = Put(t, s, r.x, r.y)
         /\ lastOp' = Op("less", t, s, -1, 0, FALSE, "read", <<Bit(r.res)>>)
    /\ UNCHANGED failed

NotEqual(t, s) ==
    /\ Idle
    /\ pre' = v
    /\ v[t].alive /\ v[s].alive
    /\ \E in \in InputsUpTo(0) :
         LET r == variant_not_equal(v[t], v[s], in) IN
         /\ v' = Put(t, s, r.x, r.y)
         /\ lastOp' = Op("not_equal", t, s, -1, 0, FALSE, "read", <<Bit(r.res)>>)
    /\ UNCHANGED failed

Greater(t, s) ==
    /\ Idle
    /\ pre' = v
    /\ v[t].alive /\ v[s].alive
    /\ \E in \in InputsUpTo(0) :
         LET r == variant_greater(v[t], v[s], in) IN
         /\ v' = Put(t, s, r.x, r.y)
         /\ lastOp' = Op("greater", t, s, -1, 0, FALSE, "read", <<Bit(r.res)>>)
    /\ UNCHANGED failed

LessEqual(t, s) ==
    /\ Idle
    /\ pre' = v
    /\ v[t].alive /\ v[s].alive
    /\ \E in \in InputsUpTo(0) :
         LET r == variant_less_equal(v[t], v[s], in) IN
         /\ v' = Put(t, s, r.x, r.y)
         /\ lastOp' = Op("less_equal", t, s, -1, 0, FALSE, "read", <<Bit(r.res)>>)
    /\ UNCHANGED failed

GreaterEqual(t, s) ==
    /\ Idle
    /\ pre' = v
    /\ v[t].alive /\ v[s].alive
    /\ \E in \in InputsUpTo(0) :
         LET r == variant_greater_equal(v[t], v[s], in) IN
         /\ v' = Put(t, s, r.x, r.y)
         /\ lastOp' = Op("greater_equal", t, s, -1, 0, FALSE, "read", <<Bit(r.res)>>)
    /\ UNCHANGED failed

\* The caller has looked at the outcome of the operation and goes on to the
\* next one.
Return ==
    /\ ~Idle
    /\ lastOp' = NoOp
    /\ v' = [x \in Vars |->
               [v[x] EXCEPT !.log = << >>,
                            !.emplaced = IF lastOp.op = "emplace" /\ lastOp.t = x
                                         THEN @ ELSE << >>]]
    /\ pre' = v'
    /\ UNCHANGED failed

Next ==
    \/ \E t \in Vars : DefaultConstruct(t)
    \/ \E t \in Vars, I \in Alts, val \in Values : InPlaceConstruct(t, I, val)
    \/ \E t \in Vars, I \in Alts, val \in Values : ConvertingConstruct(t, I, val)
    \/ \E t \in Vars : Destroy(t)
    \/ \E t \in Vars, I \in Alts, val \in Values : Emplace(t, I, val)
    \/ \E t \in Vars, s \in Vars : CopyConstruct(t, s)
    \/ \E t \in Vars, s \in Vars : MoveConstruct(t, s)
    \/ \E t \in Vars, s \in Vars : CopyAssign(t, s)
    \/ \E t \in Vars, s \in Vars : MoveAssign(t, s)
    \/ \E t \in Vars, I \in Alts, val \in Values : ConvertingAssign(t, I, val)
    \/ \E t \in Vars, s \in Vars : Swap(t, s)
    \/ \E t \in Vars, I \in Alts : Get(t, I)
    \/ \E t \in Vars, I \in Alts : GetIf(t, I)
    \/ \E t \in Vars : Visit(t)
    \/ \E t \in Vars, s \in Vars : Visit2(t, s)
    \/ \E t \in Vars : Hash(t)
    \/ \E t \in Vars, s \in Vars : Equal(t, s)
    \/ \E t \in Vars, s \in Vars : Less(t, s)
    \/ \E t \in Vars, s \in Vars : NotEqual(t, s)
    \/ \E t \in Vars, s \in Vars : Greater(t, s)
    \/ \E t \in Vars, s \in Vars : LessEqual(t, s)
    \/ \E t \in Vars, s \in Vars : GreaterEqual(t, s)
    \/ Return

Spec == Init /\ [][Next]_vars

----------------------------------------------------------------------------
(* optional<T>: a variant<monostate, T> v_ behind a cleanup guard.  The      *)
(* objects are the optionals' v_ members: alternative 0 is monostate,        *)
(* alternative 1 is T, and no other alternative is ever constructed.         *)

\* Whether call number thr into user code can be the one that throws, given
\* the alternatives the calls construct, assign or swap, in order: monostate
\* has no operation that throws.
ThrowsInT(alts, thr) ==
    IF thr = 0 THEN TRUE
    ELSE IF thr <= Len(alts) THEN alts[thr] = 1
    ELSE FALSE

\* The alternative a variant holds, as a sequence: empty when valueless.
Held(b) == IF valueless_by_exception(b) THEN << >> ELSE <<b.index_>>

\* optional::has_value(): RANGES_EXPECT(v_.index() == 0 || v_.index() == 1),
\* v_.index() != 0.
optional_has_value(b) ==
    [self |-> [b EXCEPT !.ub = @ \/ ~(index(b) = 0 \/ index(b) = 1)],
     res |-> index(b) # 0]

\* optional::reset(): v_.emplace<0>().
optional_reset(b) == emplace_(b, 0, 0, FALSE).self

\* A guard whose destructor does nothing.
cleanup_guard_idle(b, threw) == b

\* ~optional_cleanup_guard(): ptr_->reset() unless release() was reached,
\* that is, when the guarded statement threw.
optional_cleanup_guard(b, threw) == IF threw THEN optional_reset(b) ELSE b

\* optional::emplace(args): guard; v_.emplace<1>(args); guard.release().
optional_emplace(b, val, in) ==
    LET e == emplace_(b, 1, val, in.thr = 1) IN
    [self |-> optional_cleanup_guard(e.self, e.threw),
     threw |-> IF e.threw THEN 1 ELSE 0]

\* operator=(U && u) forwarding to v_ with no guard.
optional_assign_unguarded(b, val, in) ==
    LET r == converting_assign(b, 1, val, in) IN
    [self |-> r.self, threw |-> r.threw]

\* optional::operator=(U && u): guard; v_ = u; guard.release().
optional_assign(b, val, in) ==
    LET r == converting_assign(b, 1, val, in) IN
    [self |-> optional_cleanup_guard(r.self, r.threw # 0), threw |-> r.threw]

\* optional::swap(that): guard{*this}; ranges::swap(v_, that.v_);
\* guard.release().  The guard resets *this only.
optional_swap(self, that, in) ==
    LET r == swap_impl(self, that, in) IN
    [self |-> optional_cleanup_guard(r.self, r.threw # 0), that |-> r.that,
     tmp |-> r.tmp, threw |-> r.threw, path |-> r.path]

\* The alternatives that variant::swap moves or swaps, in order.
swap_calls(self, that) ==
    IF index(self) = index(that)
    THEN Held(that)
    ELSE Held(that) \o Held(self) \o Held(that)

\* optional::operator*(): RANGES_EXPECT(has_value()),
\* ranges::get_unchecked<1>(v_).
optional_deref(b, in) ==
    LET h == optional_has_value(b) IN
    [self |-> get_unchecked([h.self EXCEPT !.ub = @ \/ ~h.res], 1),
     res |-> <<variant_raw_get(b, 1, in)>>]

\* optional::value(): (has_value() || throw_bad_optional_access()), **this.
\* bva says that bad_optional_access was thrown.
optional_value(b, in) ==
    LET h == optional_has_value(b) IN
    IF ~h.res
    THEN [self |-> h.self, bva |-> TRUE, res |-> << >>]
    ELSE LET d == optional_deref(h.self, in) IN
         [self |-> d.self, bva |-> FALSE, res |-> d.res]

\* value_or returning its argument whatever the optional holds.
value_or_default(b, u, in) ==
    [self |-> optional_has_value(b).self, bva |-> FALSE, res |-> <<u>>]

\* optional::value_or(u): has_value() ? **this : static_cast<T>(u).
optional_value_or(b, u, in) ==
    LET h == optional_has_value(b) IN
    IF h.res
    THEN LET d == optional_deref(h.self, in) IN
         [self |-> d.self, bva |-> FALSE, res |-> d.res]
    ELSE [self |-> h.self, bva |-> FALSE, res |-> <<u>>]

\* optional(), optional(nullopt_t): v_ holds monostate.
OptionalDefault(t) ==
    /\ Idle
    /\ pre' = v
    /\ ~v[t].alive
    /\ v' = [v EXCEPT ![t] = variant_base_in_place(0, 0, @.ub)]
    /\ lastOp' = Op("optional_default", t, t, 0, 0, FALSE, "construct", << >>)
    /\ UNCHANGED failed

\* optional(T const &), optional(T &&), optional(in_place, args):
\* v_{in_place<1>, ...}.
OptionalFromValue(t, val) ==
    /\ Idle
    /\ pre' = v
    /\ ~v[t].alive
    /\ \E thr \in 0 .. 1 :
         /\ v' = [v EXCEPT ![t] = IF thr = 1 THEN @
                                  ELSE variant_base_in_place(1, val, @.ub)]
         /\ lastOp' = Op("optional_value", t, t, 1, thr, FALSE, "construct", << >>)
    /\ UNCHANGED failed

\* The implicit copy constructor: v_'s.
OptionalCopyConstruct(t, s) ==
    /\ Idle
    /\ pre' = v
    /\ ~v[t].alive /\ v[s].alive
    /\ \E in \in InputsUpTo(1) :
         LET r == smf_copy_construct(v[s], v[t].ub, in.thr = 1, in) IN
         /\ ThrowsInT(Held(v[s]), in.thr)
         /\ v' = [v EXCEPT ![t] = r.self, ![s] = r.that]
         /\ lastOp' = Op("optional_copy", t, s, -1, r.threw, FALSE, "construct", << >>)
    /\ UNCHANGED failed

\* The implicit move constructor: v_'s.
OptionalMoveConstruct(t, s) ==
    /\ Idle
    /\ pre' = v
    /\ ~v[t].alive /\ v[s].alive
    /\ \E in \in InputsUpTo(1) :
         LET r == smf_move_construct(v[s], v[t].ub, in.thr = 1, in) IN
         /\ ThrowsInT(Held(v[s]), in.thr)
         /\ v' = [v EXCEPT ![t] = r.self, ![s] = r.that]
         /\ lastOp' = Op("optional_move", t, s, -1, r.threw, FALSE, "construct", << >>)
    /\ UNCHANGED failed

\* The implicit destructor: v_'s.
OptionalDestroy(t) ==
    /\ Idle
    /\ pre' = v
    /\ v[t].alive
    /\ v' = [v EXCEPT ![t] = destruct(@)]
    /\ lastOp' = Op("optional_dtor", t, t, -1, 0, FALSE, "clear", << >>)
    /\ UNCHANGED failed

\* optional::reset() and operator=(nullopt_t).
OptionalReset(t) ==
    /\ Idle
    /\ pre' = v
    /\ v[t].alive
    /\ v' = [v EXCEPT ![t] = optional_reset(@)]
    /\ lastOp' = Op("optional_reset", t, t, 0, 0, FALSE, "construct", << >>)
    /\ UNCHANGED failed

OptionalEmplace(t, val) ==
    /\ Idle
    /\ pre' = v
    /\ v[t].alive
    /\ \E in \in InputsUpTo(1) :
         LET r == optional_emplace(v[t], val, in) IN
         /\ v' = [v EXCEPT ![t] = r.self]
         /\ lastOp' = Op("optional_emplace", t, t, 1, r.threw, FALSE, "construct", << >>)
         /\ failed' = (failed \/ r.threw # 0)

OptionalAssign(t, val) ==
    /\ Idle
    /\ pre' = v
    /\ v[t].alive
    /\ \E in \in InputsUpTo(1) :
         LET r == optional_assign(v[t], val, in) IN
         /\ v' = [v EXCEPT ![t] = r.self]
         /\ lastOp' = Op("optional_assign", t, t, 1, r.threw, FALSE, "assign", << >>)
         /\ failed' = (failed \/ r.threw # 0)

\* The implicit copy assignment: v_ = that.v_, with no guard.
OptionalCopyAssign(t, s) ==
    /\ Idle
    /\ pre' = v
    /\ v[t].alive /\ v[s].alive
    /\ \E in \in InputsUpTo(2) :
         LET r == copy_assign(v[t], v[s], in) IN
         /\ ThrowsInT(Held(v[s]) \o Held(v[s]), in.thr)
         /\ v' = Put(t, s, r.self, r.that)
         /\ lastOp' = Op("optional_copy_assign", t, s, -1, r.threw, FALSE, r.path, << >>)
         /\ failed' = (failed \/ r.threw # 0)

\* The implicit move assignment: v_ = move(that.v_), with no guard.
OptionalMoveAssign(t, s) ==
    /\ Idle
    /\ pre' = v
    /\ v[t].alive /\ v[s].alive
    /\ \E in \in InputsUpTo(1) :
         LET r == move_assign(v[t], v[s], t = s, in) IN
         /\ ThrowsInT(Held(v[s]), in.thr)
         /\ v' = Put(t, s, r.self, r.that)
         /\ lastOp' = Op("optional_move_assign", t, s, -1, r.threw, FALSE, r.path, << >>)
         /\ failed' = (failed \/ r.threw # 0)

\* The program state after optional::swap(that) returned or threw.
optional_swap_done(t, s, r) ==
    /\ v' = IF t = s
            THEN [v EXCEPT ![t] = [r.self EXCEPT
                                      !.ub = @ \/ r.that.ub \/ r.tmp.ub,
                                      !.oob = @ \/ r.that.oob \/ r.tmp.oob]]
            ELSE Put(t, s, [r.self EXCEPT !.ub = @ \/ r.tmp.ub,
                                          !.oob = @ \/ r.tmp.oob], r.that)
    /\ lastOp' = Op("optional_swap", t, s, -1, r.threw, FALSE, r.path, << >>)
    /\ failed' = (failed \/ r.threw # 0)

OptionalSwap(t, s) ==
    /\ Idle
    /\ pre' = v
    /\ v[t].alive /\ v[s].alive
    /\ \E in \in InputsUpTo(3) :
         /\ ThrowsInT(swap_calls(v[t], v[s]), in.thr)
         /\ optional_swap_done(t, s, optional_swap(v[t], v[s], in))

OptionalHasValue(t) ==
    /\ Idle
    /\ pre' = v
    /\ v[t].alive
    /\ LET r == optional_has_value(v[t]) IN
         /\ v' = [v EXCEPT ![t] = r.self]
         /\ lastOp' = Op("optional_has_value", t, t, -1, 0, FALSE, "read", <<Bit(r.res)>>)
    /\ UNCHANGED failed

\* optional::value().
OptionalValue(t) ==
    /\ Idle
    /\ pre' = v
    /\ v[t].alive
    /\ \E in \in InputsUpTo(0) :
         LET r == optional_value(v[t], in) IN
         /\ v' = [v EXCEPT ![t] = r.self]
         /\ lastOp' = Op("optional_value_get", t, t, -1, 0, r.bva, "read", r.res)
    /\ UNCHANGED failed

\* optional::value_or(u); the copy of T it returns may throw: then there is
\* no result.  The outcome's alt field holds the argument u.
OptionalValueOr(t, u) ==
    /\ Idle
    /\ pre' = v
    /\ v[t].alive
    /\ \E in \in InputsUpTo(1) :
         LET r == optional_value_or(v[t], u, in) IN
         /\ v' = [v EXCEPT ![t] = r.self]
         /\ lastOp' = Op("optional_value_or", t, t, u, in.thr, r.bva, "read",
                         IF in.thr = 0 THEN r.res ELSE << >>)
    /\ UNCHANGED failed

NextOptional ==
    \/ \E t \in Vars : OptionalDefault(t)
    \/ \E t \in Vars, val \in Values : OptionalFromValue(t, val)
    \/ \E t \in Vars, s \in Vars : OptionalCopyConstruct(t, s)
    \/ \E t \in Vars, s \in Vars : OptionalMoveConstruct(t, s)
    \/ \E t \in Vars : OptionalDestroy(t)
    \/ \E t \in Vars : OptionalReset(t)
    \/ \E t \in Vars, val \in Values : OptionalEmplace(t, val)
    \/ \E t \in Vars, val \in Values : OptionalAssign(t, val)
    \/ \E t \in Vars, s \in Vars : OptionalCopyAssign(t, s)
    \/ \E t \in Vars, s \in Vars : OptionalMoveAssign(t, s)
    \/ \E t \in Vars, s \in Vars : OptionalSwap(t, s)
    \/ \E t \in Vars : OptionalHasValue(t)
    \/ \E t \in Vars : OptionalValue(t)
    \/ \E t \in Vars, u \in Values : OptionalValueOr(t, u)
    \/ Return

SpecOptional == Init /\ [][NextOptional]_vars

----------------------------------------------------------------------------
(* semiregular<T>: an optional<T> t_ with destroy-and-construct assignment. *)
(* The objects are the semiregulars' t_ members.                            *)

\* semiregular<T, true>::operator=(semiregular const & that):
\* this->t_.reset(); if (that.t_) this->t_.emplace(*that.t_).
\* same says that that is *this, whose t_ the reset has then emptied.
semiregular_copy_assign(self, that, same, in) ==
    LET s1 == optional_reset(self)
        h == optional_has_value(IF same THEN s1 ELSE that)
    IN  IF h.res
        THEN LET d == optional_deref(h.self, in)
                 e == optional_emplace(IF same THEN d.self ELSE s1, d.res[1], in)
             IN  [self |-> e.self, that |-> IF same THEN e.self ELSE d.self,
                  threw |-> e.threw]
        ELSE [self |-> IF same THEN h.self ELSE s1, that |-> h.self, threw |-> 0]

\* semiregular_movable_base<Derived, T, false>::operator=(&& that):
\* this->t_.reset(); if (that.t_) this->t_.emplace(move(*that.t_)).
semiregular_move_assign(self, that, same, in) ==
    LET s1 == optional_reset(self)
        h == optional_has_value(IF same THEN s1 ELSE that)
    IN  IF h.res
        THEN LET d == optional_deref(h.self, in)
                 e == optional_emplace(IF same THEN d.self ELSE s1, d.res[1], in)
                 m == IF e.threw # 0 THEN d.self
                      ELSE [d.self EXCEPT !.cell[1] = <<moved(d.res[1], in)>>]
             IN  [self |-> e.self, that |-> IF same THEN e.self ELSE m,
                  threw |-> e.threw]
        ELSE [self |-> IF same THEN h.self ELSE s1, that |-> h.self, threw |-> 0]

SemiregularCopyAssign(t, s) ==
    /\ Idle
    /\ pre' = v
    /\ v[t].alive /\ v[s].alive
    /\ \E in \in InputsUpTo(1) :
         LET r == semiregular_copy_assign(v[t], v[s], t = s, in) IN
         /\ v' = Put(t, s, r.self, r.that)
         /\ lastOp' = Op("semiregular_copy_assign", t, s, -1, r.threw, FALSE,
                         "reset_emplace", << >>)
         /\ failed' = (failed \/ r.threw # 0)

SemiregularMoveAssign(t, s) ==
    /\ Idle
    /\ pre' = v
    /\ v[t].alive /\ v[s].alive
    /\ \E in \in InputsUpTo(1) :
         LET r == semiregular_move_assign(v[t], v[s], t = s, in) IN
         /\ v' = Put(t, s, r.self, r.that)
         /\ lastOp' = Op("semiregular_move_assign", t, s, -1, r.threw, FALSE,
                         "reset_emplace", << >>)
         /\ failed' = (failed \/ r.threw # 0)

\* A program of semiregular objects: construction (empty, or from a T),
\* copy and move construction and destruction are those of the optional t_.
NextSemiregular ==
    \/ \E t \in Vars : OptionalDefault(t)
    \/ \E t \in Vars, val \in Values : OptionalFromValue(t, val)
    \/ \E t \in Vars, s \in Vars : OptionalCopyConstruct(t, s)
    \/ \E t \in Vars, s \in Vars : OptionalMoveConstruct(t, s)
    \/ \E t \in Vars : OptionalDestroy(t)
    \/ \E t \in Vars, val \in Values : OptionalEmplace(t, val)
    \/ \E t \in Vars, s \in Vars : SemiregularCopyAssign(t, s)
    \/ \E t \in Vars, s \in Vars : SemiregularMoveAssign(t, s)
    \/ \E t \in Vars : OptionalHasValue(t)
    \/ Return

SpecSemiregular == Init /\ [][NextSemiregular]_vars

----------------------------------------------------------------------------
(* detail::non_propagating_cache<T>: an optional<T> whose copy and move     *)
(* operations carry no value over.  The objects are the caches.             *)

\* non_propagating_cache(non_propagating_cache const &): optional<T>{}.
cache_copy_construct(that, ub) ==
    [self |-> variant_base_in_place(0, 0, ub), that |-> that]

\* A move constructor that leaves its source as it is.
cache_move_construct_keep(that, ub) ==
    [self |-> variant_base_in_place(0, 0, ub), that |-> that]

\* non_propagating_cache(non_propagating_cache && that): optional<T>{},
\* that.optional<T>::reset().
cache_move_construct(that, ub) ==
    [self |-> variant_base_in_place(0, 0, ub), that |-> optional_reset(that)]

\* operator=(non_propagating_cache const &): this->optional<T>::reset().
\* same says that the argument is *this.
cache_copy_assign(self, that, same) ==
    LET s1 == optional_reset(self) IN
    [self |-> s1, that |-> IF same THEN s1 ELSE that]

\* operator=(non_propagating_cache && that): that.optional<T>::reset(),
\* this->optional<T>::reset().
cache_move_assign(self, that, same) ==
    LET t1 == optional_reset(that)
        s1 == optional_reset(IF same THEN t1 ELSE self)
    IN  [self |-> s1, that |-> IF same THEN s1 ELSE t1]

CacheCopyConstruct(t, s) ==
    /\ Idle
    /\ pre' = v
    /\ ~v[t].alive /\ v[s].alive
    /\ LET r == cache_copy_construct(v[s], v[t].ub) IN
         v' = [v EXCEPT ![t] = r.self, ![s] = r.that]
    /\ lastOp' = Op("cache_copy", t, s, -1, 0, FALSE, "construct", << >>)
    /\ UNCHANGED failed

CacheMoveConstruct(t, s) ==
    /\ Idle
    /\ pre' = v
    /\ ~v[t].alive /\ v[s].alive
    /\ LET r == cache_move_construct(v[s], v[t].ub) IN
         v' = [v EXCEPT ![t] = r.self, ![s] = r.that]
    /\ lastOp' = Op("cache_move", t, s, -1, 0, FALSE, "construct", << >>)
    /\ UNCHANGED failed

CacheCopyAssign(t, s) ==
    /\ Idle
    /\ pre' = v
    /\ v[t].alive /\ v[s].alive
    /\ LET r == cache_copy_assign(v[t], v[s], t = s) IN
         v' = Put(t, s, r.self, r.that)
    /\ lastOp' = Op("cache_copy_assign", t, s, -1, 0, FALSE, "reset", << >>)
    /\ UNCHANGED failed

CacheMoveAssign(t, s) ==
    /\ Idle
    /\ pre' = v
    /\ v[t].alive /\ v[s].alive
    /\ LET r == cache_move_assign(v[t], v[s], t = s) IN
         v' = Put(t, s, r.self, r.that)
    /\ lastOp' = Op("cache_move_assign", t, s, -1, 0, FALSE, "reset", << >>)
    /\ UNCHANGED failed

\* A program of caches: they are built empty or from a value, filled by
\* operator=(U &&) and emplace as remove_if_view::get_begin fills begin_,
\* read, copied, moved and destroyed.
NextCache ==
    \/ \E t \in Vars : OptionalDefault(t)
    \/ \E t \in Vars, val \in Values : OptionalFromValue(t, val)
    \/ \E t \in Vars, s \in Vars : CacheCopyConstruct(t, s)
    \/ \E t \in Vars, s \in Vars : CacheMoveConstruct(t, s)
    \/ \E t \in Vars, s \in Vars : CacheCopyAssign(t, s)
    \/ \E t \in Vars, s \in Vars : CacheMoveAssign(t, s)
    \/ \E t \in Vars, val \in Values : OptionalAssign(t, val)
    \/ \E t \in Vars, val \in Values : OptionalEmplace(t, val)
    \/ \E t \in Vars : OptionalDestroy(t)
    \/ \E t \in Vars : OptionalHasValue(t)
    \/ \E t \in Vars : OptionalValue(t)
    \/ Return

SpecCache == Init /\ [][NextCache]_vars

----------------------------------------------------------------------------
(* Properties                                                              *)

\* The target and the source of the last operation, now and before it.
T == v[lastOp.t]

S == v[lastOp.s]

PreT == pre[lastOp.t]

PreS == pre[lastOp.s]

\* The storage cells of b an alternative is constructed in.
Live(b) == {j \in Alts : b.cell[j] # Uninit}

\* The last operation was an assignment of the given kind between variants
\* that held different indices.
AssignedAcross(name) ==
    lastOp.op = name /\ PreT.index_ # PreS.index_

\* C1: every variant has its index in [-1, n); it is valueless exactly when
\* the index is -1, and index() then reports variant_npos.
C1_IndexInRange ==
    \A x \in Vars : v[x].alive =>
        /\ v[x].index_ \in -1 .. (NumAlts - 1)
        /\ (valueless_by_exception(v[x]) <=> v[x].index_ = -1)
        /\ (v[x].index_ = -1 => index(v[x]) = variant_npos)
        /\ (v[x].index_ # -1 => index(v[x]) = v[x].index_)

\* A failed assignment has left one variant valueless while the other holds
\* the last alternative.
C1_Witness ==
    /\ lastOp.threw # 0
    /\ T.alive /\ S.alive
    /\ index(T) = variant_npos
    /\ S.index_ = NumAlts - 1

\* C2: at most one storage cell of a variant is constructed, the one index
\* names, and none when the index is -1; also after operations that threw.
C2_OneCellLive ==
    \A x \in Vars :
        Live(v[x]) = IF v[x].index_ = -1 THEN {} ELSE {v[x].index_}

\* An emplace that threw has destroyed the cell that was live before it.
C2_Witness ==
    /\ lastOp.op = "emplace" /\ lastOp.threw = 1
    /\ Live(PreT) # {}
    /\ Live(T) = {}

\* C3: no operation reads, assigns to or destroys a cell no alternative
\* lives in, or constructs over a live one; and an index changes only to -1
\* with the old cell destroyed, or to i with cell i constructed.
C3_NoAccessOutsideLifetime ==
    \A x \in Vars :
        /\ ~v[x].ub
        /\ v[x].index_ # pre[x].index_ =>
             \/ v[x].index_ = -1 /\ Live(v[x]) = {}
             \/ v[x].index_ \in Alts /\ v[x].cell[v[x].index_] # Uninit
                /\ (pre[x].index_ \in Alts => v[x].cell[pre[x].index_] = Uninit)

\* A swap has exchanged a valueless variant with one holding an alternative.
C3_Witness ==
    /\ lastOp.op = "swap" /\ lastOp.path = "three_step" /\ lastOp.threw = 0
    /\ valueless_by_exception(PreS) /\ ~valueless_by_exception(PreT)
    /\ valueless_by_exception(T) /\ S.index_ = PreT.index_

\* C4: in a copy assignment between different indices, when the copy of the
\* source's alternative throws, the target has its original index and value.
C4_CopyThrowsTargetUnchanged ==
    (AssignedAcross("copy_assign") /\ lastOp.threw = 1) => T = PreT

\* Such a copy assignment onto a variant that holds an alternative.
C4_Witness ==
    /\ AssignedAcross("copy_assign") /\ lastOp.threw = 1
    /\ lastOp.path = "two_step"
    /\ PreT.index_ \in Alts
    /\ T = PreT

\* C5 as stated: a move assignment between different indices whose
\* construction throws leaves the target in its original state.
C5_MoveAssignStrongGuarantee ==
    (AssignedAcross("move_assign") /\ lastOp.threw # 0) => T = PreT

\* C5 as amended: a move assignment between different indices clears the
\* target first and move-constructs the source's alternative directly in the
\* target's storage; there is no scratch slot, so when that construction
\* throws the target's original alternative is destroyed, the target no
\* longer holds its original state and the source keeps its index.
C5_MoveAssignDirect ==
    (AssignedAcross("move_assign") /\ PreS.index_ \in Alts) =>
        /\ lastOp.path = "direct"
        /\ lastOp.threw = 0 => T.index_ = PreS.index_
        /\ lastOp.threw # 0 =>
             /\ Live(T) = {}
             /\ PreT.index_ \in Alts => T # PreT
             /\ S.index_ = PreS.index_

\* A move assignment that threw has destroyed the alternative of its target.
C5_Witness ==
    /\ AssignedAcross("move_assign") /\ lastOp.threw = 1
    /\ lastOp.path = "direct"
    /\ PreT.index_ \in Alts
    /\ T # PreT

\* C6: an assignment between different indices that throws leaves the target
\* unchanged (the copy assignment whose copy threw) or valueless (the move
\* assignment), never holding another or a partly constructed alternative.
C6_UnchangedOrValueless ==
    (\/ AssignedAcross("copy_assign")
     \/ AssignedAcross("move_assign")) /\ lastOp.threw # 0 =>
        /\ \/ T = PreT
           \/ valueless_by_exception(T) /\ Live(T) = {}
        /\ lastOp.op = "move_assign" => valueless_by_exception(T)
        /\ T = PreT /\ PreT.index_ \in Alts =>
             lastOp.op = "copy_assign" /\ lastOp.threw = 1

\* Both outcomes occur: this is the valueless one, from a target that held
\* an alternative.
C6_Witness ==
    /\ lastOp.op \in {"copy_assign", "move_assign"}
    /\ lastOp.threw # 0
    /\ PreT.index_ \in Alts /\ PreS.index_ \in Alts
    /\ PreT.index_ # PreS.index_
    /\ T.index_ = -1 /\ Live(T) = {}

\* C7: in a copy assignment between different indices, when the copy
\* succeeds and the move of the copy into the target throws, the target is
\* valueless and the source has its original index and value.
C7_MoveOfCopyThrows ==
    (AssignedAcross("copy_assign") /\ lastOp.threw = 2) =>
        /\ valueless_by_exception(T)
        /\ index(T) = variant_npos
        /\ S = PreS

\* Such a copy assignment onto a variant that held an alternative.
C7_Witness ==
    /\ AssignedAcross("copy_assign") /\ lastOp.threw = 2
    /\ PreT.index_ \in Alts
    /\ valueless_by_exception(T)
    /\ S = PreS /\ S.index_ \in Alts

\* C8: in a move assignment between different indices, when the move
\* construction of the source's alternative throws, the exception reaches
\* the caller and the target is valueless, index() == variant_npos.
C8_MoveAssignThrowsValueless ==
    (AssignedAcross("move_assign") /\ PreS.index_ \in Alts /\ lastOp.threw = 1) =>
        /\ valueless_by_exception(T)
        /\ index(T) = variant_npos

\* Such a move assignment onto a variant that held an alternative.
C8_Witness ==
    /\ AssignedAcross("move_assign") /\ lastOp.threw = 1
    /\ ~valueless_by_exception(PreT)
    /\ index(T) = variant_npos

\* C9: when the constructor throws during emplace<i>, or during a converting
\* assignment that constructs another alternative, the exception reaches the
\* caller, the alternative held before is destroyed and the variant is
\* valueless.
C9_EmplaceThrowsValueless ==
    (/\ \/ lastOp.op = "emplace"
        \/ lastOp.op = "converting_assign" /\ lastOp.path = "construct"
     /\ lastOp.threw = 1) =>
        /\ valueless_by_exception(T)
        /\ Live(T) = {}

\* A converting assignment that threw while constructing another alternative
\* than the one held.
C9_Witness ==
    /\ lastOp.op = "converting_assign" /\ lastOp.path = "construct"
    /\ lastOp.threw = 1
    /\ PreT.index_ \in Alts /\ PreT.index_ # lastOp.alt
    /\ valueless_by_exception(T)

\* C10: as long as no emplace, assignment or swap has thrown, no variant is
\* valueless; and a variant is not valueless right after its default,
\* in-place or converting construction.
C10_ValuelessOnlyAfterFailure ==
    /\ \A x \in Vars :
         (v[x].alive /\ valueless_by_exception(v[x])) => failed
    /\ (/\ lastOp.op \in {"default_ctor", "in_place_ctor", "converting_ctor"}
        /\ lastOp.threw = 0) =>
           T.alive /\ ~valueless_by_exception(T)

\* Nothing has thrown, and a move assignment has replaced one alternative by
\* another.
C10_Witness ==
    /\ ~failed
    /\ AssignedAcross("move_assign") /\ lastOp.path = "direct"
    /\ T.alive /\ S.alive
    /\ ~valueless_by_exception(T)

\* C11: get<i>(v) returns the live alternative when v.index() == i and throws
\* bad_variant_access otherwise, on a valueless variant for every i; the
\* storage is not read when it throws.
C11_GetChecked ==
    lastOp.op = "get" =>
        /\ T = PreT
        /\ IF index(PreT) = lastOp.alt
           THEN ~lastOp.bva /\ lastOp.res = PreT.cell[lastOp.alt]
                /\ lastOp.res # Uninit
           ELSE lastOp.bva /\ lastOp.res = << >>
        /\ (valueless_by_exception(PreT) => lastOp.bva)

\* get<i> on a valueless variant has thrown bad_variant_access.
C11_Witness ==
    /\ lastOp.op = "get" /\ valueless_by_exception(PreT)
    /\ lastOp.bva /\ T = PreT

\* C12: visit and visit_i throw bad_variant_access when any argument, in any
\* position, is valueless; the visitor is not called and no storage is read.
C12_VisitValuelessThrows ==
    /\ (lastOp.op = "visit" /\ valueless_by_exception(PreT)) =>
          (lastOp.bva /\ lastOp.res = << >> /\ v = pre)
    /\ (lastOp.op = "visit2"
          /\ (valueless_by_exception(PreT) \/ valueless_by_exception(PreS))) =>
          (lastOp.bva /\ lastOp.res = << >> /\ v = pre)

\* A visit of two variants of which only the second is valueless has thrown.
C12_Witness ==
    /\ lastOp.op = "visit2" /\ lastOp.t # lastOp.s
    /\ ~valueless_by_exception(PreT) /\ valueless_by_exception(PreS)
    /\ lastOp.bva /\ lastOp.res = << >>

\* C13: when no argument is valueless, visit calls the visitor exactly once,
\* with the live alternative of each variant in argument order, and returns
\* the result of that call.
C13_VisitCallsOnce ==
    /\ (lastOp.op = "visit" /\ ~valueless_by_exception(PreT)) =>
          /\ ~lastOp.bva /\ v = pre
          /\ lastOp.res = <<PreT.index_, PreT.cell[PreT.index_][1]>>
    /\ (lastOp.op = "visit2"
          /\ ~valueless_by_exception(PreT) /\ ~valueless_by_exception(PreS)) =>
          /\ ~lastOp.bva /\ v = pre
          /\ lastOp.res = << <<PreT.index_, PreT.cell[PreT.index_][1],
                               PreS.index_, PreS.cell[PreS.index_][1]>> >>

\* Two variants holding different alternatives with different values have
\* been visited together.
C13_Witness ==
    /\ lastOp.op = "visit2" /\ ~lastOp.bva
    /\ PreT.index_ \in Alts /\ PreS.index_ \in Alts
    /\ PreT.index_ # PreS.index_
    /\ Len(lastOp.res) = 1
    /\ lastOp.res[1][2] # lastOp.res[1][4]

\* The last operation was assignment name between variants holding the same
\* alternative.
AssignedSame(name) ==
    /\ lastOp.op = name
    /\ PreT.index_ = PreS.index_ /\ PreS.index_ \in Alts

\* C14: copy and move assignment between variants holding the same index
\* assign the live alternative in place: no alternative is constructed or
\* destroyed, and when the alternative's assignment operator throws the
\* target holds the same index and the same cell as before.
C14_SameIndexAssignInPlace ==
    (AssignedSame("copy_assign") \/ AssignedSame("move_assign")) =>
        /\ lastOp.path = "assign"
        /\ T.index_ = PreT.index_ /\ Live(T) = {PreT.index_}
        /\ S.index_ = PreS.index_ /\ Live(S) = {PreS.index_}
        /\ (lastOp.threw = 0 /\ lastOp.op = "copy_assign") =>
              T.cell[T.index_] = PreS.cell[PreS.index_]

\* The alternative's assignment operator has thrown in a copy assignment
\* between two variants holding the same index.
C14_Witness ==
    /\ AssignedSame("copy_assign") /\ lastOp.t # lastOp.s
    /\ lastOp.threw # 0
    /\ T.index_ = PreT.index_ /\ Live(T) = {PreT.index_}

\* The last operation was a copy or move assignment from a valueless source.
AssignedFromValueless ==
    /\ lastOp.op \in {"copy_assign", "move_assign"}
    /\ valueless_by_exception(PreS)

\* C15: copy or move assignment from a valueless source destroys the target's
\* live alternative, if any, and leaves the target valueless; when both are
\* valueless nothing changes.
C15_AssignFromValueless ==
    AssignedFromValueless =>
        /\ lastOp.threw = 0
        /\ valueless_by_exception(T) /\ Live(T) = {}
        /\ S = PreS
        /\ valueless_by_exception(PreT) => v = pre

\* A variant holding an alternative has been copy-assigned from a valueless
\* one.
C15_Witness ==
    /\ AssignedFromValueless /\ lastOp.op = "copy_assign"
    /\ PreT.index_ \in Alts
    /\ valueless_by_exception(T) /\ Live(T) = {}

\* C16: a copy assignment v1 = v2 that completes without exception leaves v1
\* with v2's index and a value equal to v2's, and leaves v2's index and value
\* unchanged, whatever the two held before.
C16_CopyAssignResult ==
    (lastOp.op = "copy_assign" /\ lastOp.threw = 0) =>
        /\ T.index_ = PreS.index_ /\ T.cell = PreS.cell
        /\ S.index_ = PreS.index_ /\ S.cell = PreS.cell

\* A copy assignment between variants holding the same alternative with
\* different values has completed.
C16_Witness ==
    /\ lastOp.op = "copy_assign" /\ lastOp.threw = 0
    /\ lastOp.t # lastOp.s
    /\ PreT.index_ = PreS.index_ /\ PreS.index_ \in Alts
    /\ PreT.cell # PreS.cell
    /\ T.cell = PreS.cell /\ S = PreS

\* C17: a swap that completes without exception exchanges the operands'
\* states: each ends with the other's former index and value, also when one
\* or both were valueless, and bad_variant_access is not raised.
C17_SwapExchanges ==
    (lastOp.op = "swap" /\ lastOp.threw = 0) =>
        /\ ~lastOp.bva
        /\ T.index_ = PreS.index_ /\ T.cell = PreS.cell
        /\ S.index_ = PreT.index_ /\ S.cell = PreT.cell

\* A variant holding an alternative has been swapped with a valueless one.
C17_Witness ==
    /\ lastOp.op = "swap" /\ lastOp.threw = 0 /\ lastOp.t # lastOp.s
    /\ PreT.index_ \in Alts /\ valueless_by_exception(PreS)
    /\ valueless_by_exception(T) /\ S.index_ = PreT.index_
    /\ S.cell = PreT.cell

\* The last operation was a swap of two variants holding different
\* alternatives in which a move threw.
SwapAcrossThrew ==
    /\ lastOp.op = "swap" /\ lastOp.threw # 0
    /\ PreT.index_ \in Alts /\ PreS.index_ \in Alts
    /\ PreT.index_ # PreS.index_

LiveValue(b) == b.cell[b.index_][1]

\* C19: a valueless variant is less than every variant that holds an
\* alternative and equal to another valueless variant; two variants that
\* hold alternatives are ordered by index first and, for equal indices, by
\* their live alternatives.
C19_RelationalOrder ==
    /\ lastOp.op = "equal" =>
          /\ v = pre
          /\ lastOp.res = <<Bit(
                IF valueless_by_exception(PreT) \/ valueless_by_exception(PreS)
                THEN valueless_by_exception(PreT) /\ valueless_by_exception(PreS)
                ELSE /\ PreT.index_ = PreS.index_
                     /\ LiveValue(PreT) = LiveValue(PreS))>>
    /\ lastOp.op = "less" =>
          /\ v = pre
          /\ lastOp.res = <<Bit(
                IF valueless_by_exception(PreS) THEN FALSE
                ELSE IF valueless_by_exception(PreT) THEN TRUE
                ELSE \/ PreT.index_ < PreS.index_
                     \/ /\ PreT.index_ = PreS.index_
                        /\ LiveValue(PreT) < LiveValue(PreS))>>

\* A valueless variant has compared less than one holding an alternative.
C19_Witness ==
    /\ lastOp.op = "less"
    /\ valueless_by_exception(PreT) /\ PreS.index_ \in Alts
    /\ lastOp.res = <<1>>

\* C20: every optional has its variant's index at 0 or 1, never valueless,
\* whatever sequence of construction, emplace, value assignment, copy and
\* move assignment, reset and swap produced it, failed operations included;
\* and has_value() is true exactly when the index is 1.
C20_OptionalNeverValueless ==
    /\ \A x \in Vars : v[x].alive =>
          (v[x].index_ \in {0, 1} /\ ~v[x].ub)
    /\ lastOp.op = "optional_has_value" =>
          lastOp.res = <<Bit(PreT.index_ = 1)>>

\* C21: when T's constructor throws in optional::emplace the exception
\* reaches the caller and the optional is empty: index 0, has_value() false,
\* not valueless and no T constructed, whether or not it held a value before.
C21_OptionalEmplaceThrows ==
    (lastOp.op = "optional_emplace" /\ lastOp.threw # 0) =>
        /\ T.index_ = 0 /\ Live(T) = {0}
        /\ ~optional_has_value(T).res
        /\ T.ub = PreT.ub

\* An emplace into an optional that held a value has thrown.
C21_Witness ==
    /\ lastOp.op = "optional_emplace" /\ lastOp.threw # 0
    /\ PreT.index_ = 1
    /\ T.index_ = 0 /\ Live(T) = {0}

\* C22: optional::value() throws bad_optional_access when the optional is
\* empty and otherwise returns the contained value.
C22_OptionalValue ==
    lastOp.op = "optional_value_get" =>
        IF PreT.index_ = 0
        THEN lastOp.bva /\ lastOp.res = << >> /\ T = PreT
        ELSE /\ ~lastOp.bva /\ T = PreT
             /\ PreT.cell[1] # Uninit /\ lastOp.res = PreT.cell[1]

\* value() has been called on an optional whose variant is valueless: it
\* has not thrown, and has read a T that was never constructed.
C22_Witness ==
    /\ lastOp.op = "optional_value_get"
    /\ valueless_by_exception(PreT)
    /\ ~lastOp.bva /\ T.ub /\ ~PreT.ub

\* C23: optional::value_or(d) raises no access error; it returns the
\* contained value when there is one and d when the optional is empty.
C23_OptionalValueOr ==
    lastOp.op = "optional_value_or" =>
        /\ ~lastOp.bva
        /\ (lastOp.threw = 0 /\ PreT.index_ = 1) =>
              (lastOp.res = PreT.cell[1] /\ T = PreT)
        /\ (lastOp.threw = 0 /\ PreT.index_ = 0) =>
              (lastOp.res = <<lastOp.alt>> /\ T = PreT)

\* value_or has returned the value of an engaged optional, which differs from
\* the argument.
C23_Witness ==
    /\ lastOp.op = "optional_value_or" /\ lastOp.threw = 0
    /\ PreT.index_ = 1
    /\ lastOp.res = PreT.cell[1] /\ lastOp.res # <<lastOp.alt>>

\* The combination of an index and the hash of an alternative that
\* std::hash<variant> computes.
HashOf(i, h) ==
    Xor(i, (h + HashMagic + ((i * 64) % SizeMod) + (i \div 4)) % SizeMod)

\* C24: the hash of a valueless variant is its index(), computed without
\* hashing or reading any alternative, so all valueless variants hash alike;
\* the hash of a variant holding an alternative is a function of its index
\* and of the hash of the live alternative only.
C24_HashFromIndexAndValue ==
    lastOp.op = "hash" =>
        /\ v = pre
        /\ IF valueless_by_exception(PreT)
           THEN lastOp.res = <<variant_npos>>
           ELSE lastOp.res = <<HashOf(PreT.index_, LiveValue(PreT) % SizeMod)>>

\* A valueless variant has been hashed.
C24_Witness ==
    /\ lastOp.op = "hash" /\ valueless_by_exception(PreT)
    /\ lastOp.res = <<variant_npos>> /\ v = pre

\* C25: when emplace<i>(args) completes twice in a row on one variant with the
\* same arguments, the state after the second call is the state after the
\* first (same index, same stored values, no new undefined behaviour), and
\* the second call ran exactly one destructor, that of the value the first
\* call built, before it constructed alternative i again.
C25_EmplaceTwiceIdempotent ==
    (/\ lastOp.op = "emplace" /\ lastOp.threw = 0
     /\ T.emplaced # << >> /\ PreT.emplaced = T.emplaced) =>
        /\ T.index_ = PreT.index_ /\ T.index_ = lastOp.alt
        /\ T.cell = PreT.cell
        /\ T.ub = PreT.ub
        /\ T.log = << <<"dtor", lastOp.alt>>, <<"ctor", lastOp.alt>> >>

C25_Witness ==
    /\ lastOp.op = "emplace" /\ lastOp.threw = 0
    /\ T.emplaced = <<2, 1>> /\ PreT.emplaced = <<2, 1>>
    /\ T.cell[2] = <<1>> /\ Len(T.log) = 2

\* C26: every step that is a completed in-place construction with
\* alternative i and value val, or a completed emplace<i>(val) from whatever
\* the variant held before (any alternative, or nothing), leaves index() = i,
\* and get<i>() then returns val without throwing and without undefined
\* behaviour.
C26_ConstructedValueReadBack ==
    [][\A t \in Vars, I \in Alts, val \in Values :
          ((InPlaceConstruct(t, I, val) \/ Emplace(t, I, val))
             /\ lastOp'.threw = 0) =>
                /\ index(v'[t]) = I
                /\ \A in \in InputsUpTo(0) :
                      LET r == get(v'[t], I, in) IN
                      /\ ~r.bva
                      /\ r.res = <<val>>
                      /\ r.self = v'[t]]_vars

C26_Witness ==
    /\ lastOp.op = "emplace" /\ lastOp.threw = 0 /\ lastOp.alt = 1
    /\ PreT.alive /\ valueless_by_exception(PreT)
    /\ index(T) = 1 /\ T.emplaced = <<1, 1>> /\ T.cell[1] = <<1>>

\* C27: get_if<i>(p) never throws and changes nothing; it returns the null
\* pointer when p is null or when the variant p points at has an index other
\* than i (a valueless variant included), and otherwise a pointer to the
\* live alternative i.
C27_GetIfNeverThrows ==
    lastOp.op = "get_if" =>
        /\ ~lastOp.bva /\ lastOp.threw = 0
        /\ v = pre
        /\ IF lastOp.path = "null" \/ index(PreT) # lastOp.alt
           THEN lastOp.res = << >>
           ELSE lastOp.res # << >> /\ lastOp.res = PreT.cell[lastOp.alt]

C27_Witness ==
    /\ lastOp.op = "get_if" /\ lastOp.path = "read"
    /\ PreT.alive /\ valueless_by_exception(PreT)
    /\ lastOp.res = << >>

\* C28: a default-constructed variant holds a value-initialised first
\* alternative: index() = 0, the value is the value-initialised one, no other
\* alternative is built and the variant is not valueless.  When the default
\* constructor of the first alternative throws, the exception leaves the
\* constructor and no variant object comes to exist.
C28_DefaultConstructFirst ==
    lastOp.op = "default_ctor" =>
        IF lastOp.threw = 0
        THEN /\ T.alive /\ index(T) = 0 /\ ~valueless_by_exception(T)
             /\ T.cell = [i \in Alts |-> IF i = 0 THEN <<0>> ELSE Uninit]
             /\ T.log = << <<"ctor", 0>> >>
        ELSE /\ lastOp.threw = 1
             /\ ~T.alive /\ T = PreT

C28_Witness ==
    /\ lastOp.op = "default_ctor" /\ lastOp.threw = 0
    /\ T.alive /\ index(T) = 0 /\ T.cell[0] = <<0>>

\* C29: a variant built by the copy or the move constructor has the index of
\* its source, and is valueless exactly when the source is; the construction
\* never changes the index of the source, whether it completes or throws; and
\* the source of a move still holds its (moved-from) alternative: the same
\* members are alive in it as before, and none was destroyed.
C29_CopyMoveConstructIndex ==
    lastOp.op \in {"copy_ctor", "move_ctor"} =>
        /\ S.alive /\ S.index_ = PreS.index_
        /\ \A i \in Alts : (S.cell[i] = Uninit) <=> (PreS.cell[i] = Uninit)
        /\ S.log = << >>
        /\ lastOp.op = "copy_ctor" => S = PreS
        /\ lastOp.threw = 0 =>
              /\ T.alive /\ T.index_ = PreS.index_
              /\ valueless_by_exception(T) <=> valueless_by_exception(PreS)
              /\ \A i \in Alts : (T.cell[i] # Uninit) <=> (i = PreS.index_)
        /\ lastOp.threw # 0 => ~T.alive

C29_Witness ==
    /\ lastOp.op = "move_ctor" /\ lastOp.threw = 0
    /\ PreS.index_ = 1 /\ PreS.cell[1] = <<1>>
    /\ T.alive /\ T.index_ = 1 /\ T.cell[1] = <<1>>
    /\ S.index_ = 1 /\ S.cell[1] = <<0>>

\* C30: when a variant is destroyed, the destructor of the alternative it
\* holds runs exactly once, on a live object, and the destructor of no other
\* alternative runs; when the variant is valueless no destructor runs at
\* all.  No member is alive afterwards.
C30_DestructorRunsOnce ==
    lastOp.op = "dtor" =>
        /\ ~T.alive
        /\ T.ub = PreT.ub
        /\ \A i \in Alts : T.cell[i] = Uninit
        /\ IF valueless_by_exception(PreT)
           THEN T.log = << >>
           ELSE /\ T.log = << <<"dtor", PreT.index_>> >>
                /\ PreT.cell[PreT.index_] # Uninit

C30_Witness ==
    /\ lastOp.op = "dtor"
    /\ PreT.index_ = 2 /\ PreT.cell[2] = <<1>>
    /\ T.log = << <<"dtor", 2>> >>

\* C31: for variants that are not valueless the canonical index is the sum of
\* each index times the product of the sizes of the variants after it; it
\* lies in [0, n1 * ... * nk), differs for different index tuples, and the
\* dispatch-table entry it selects is the one for exactly this index tuple.
\* Checked for one variant and for two.
C31_CanonicalIndexBijective ==
    /\ (lastOp.op = "visit" /\ ~valueless_by_exception(PreT)) =>
          LET ci == variant_canonical_index(PreT) IN
          /\ ~ci.bva /\ ci.index \in 0 .. (NumAlts - 1)
          /\ \A in \in InputsUpTo(0) :
                variant_raw_visit(ci.index, in) = PreT.index_
          /\ \A i \in Alts : i # PreT.index_ =>
                variant_canonical_index([PreT EXCEPT !.index_ = i]).index
                    # ci.index
    /\ (lastOp.op = "visit2"
          /\ ~valueless_by_exception(PreT) /\ ~valueless_by_exception(PreS)) =>
          LET ci == variant_canonical_index2(PreT, PreS) IN
          /\ ~ci.bva /\ ci.index \in 0 .. (NumAlts * NumAlts - 1)
          /\ ci.index = PreT.index_ * NumAlts + PreS.index_
          /\ \A in \in InputsUpTo(0) :
                variant_raw_visit2(ci.index, in) = <<PreT.index_, PreS.index_>>
          /\ \A i, j \in Alts : <<i, j>> # <<PreT.index_, PreS.index_>> =>
                variant_canonical_index2([PreT EXCEPT !.index_ = i],
                                         [PreS EXCEPT !.index_ = j]).index
                    # ci.index

C31_Witness ==
    /\ lastOp.op = "visit2" /\ ~lastOp.bva
    /\ PreT.index_ = 2 /\ PreS.index_ = 1
    /\ variant_canonical_index2(PreT, PreS).index = 2 * NumAlts + 1
    /\ Len(lastOp.res) = 1 /\ lastOp.res[1][1] = 2 /\ lastOp.res[1][3] = 1

\* What operator== and operator< return for the operands of the last
\* operation as they were before it, under every outcome the build can give.
EqBefore(in) == variant_equal(PreT, PreS, in).res
LtBefore(in) == variant_less(PreT, PreS, in).res
GtBefore(in) == variant_less(PreS, PreT, in).res

\* C32: for two variants of one type, valueless ones included, exactly one of
\* x < y, x == y and y < x holds, and x != y, x > y, x <= y, x >= y return
\* !(x == y), y < x, !(y < x) and !(x < y); no comparison changes an operand.
C32_RelationalConsistent ==
    lastOp.op \in {"equal", "less", "not_equal", "greater", "less_equal",
                   "greater_equal"} =>
        \A in \in InputsUpTo(0) :
            /\ v = pre
            /\ Bit(LtBefore(in)) + Bit(EqBefore(in)) + Bit(GtBefore(in)) = 1
            /\ lastOp.op = "equal" => lastOp.res = <<Bit(EqBefore(in))>>
            /\ lastOp.op = "less" => lastOp.res = <<Bit(LtBefore(in))>>
            /\ lastOp.op = "not_equal" => lastOp.res = <<Bit(~EqBefore(in))>>
            /\ lastOp.op = "greater" => lastOp.res = <<Bit(GtBefore(in))>>
            /\ lastOp.op = "less_equal" => lastOp.res = <<Bit(~GtBefore(in))>>
            /\ lastOp.op = "greater_equal" => lastOp.res = <<Bit(~LtBefore(in))>>

\* Two valueless variants have been compared with operator!=.
C32_Witness ==
    /\ lastOp.op = "not_equal" /\ lastOp.t # lastOp.s
    /\ valueless_by_exception(PreT) /\ valueless_by_exception(PreS)
    /\ lastOp.res = <<0>>

\* The operand whose alternative was being moved when the swap threw: the
\* argument's in the first step, that of the object swap was called on in the
\* second, and in the third the argument's again, by then held by tmp.
SwapThrowHolder == IF lastOp.threw = 2 THEN lastOp.t ELSE lastOp.s
SwapThrowOther == IF lastOp.threw = 2 THEN lastOp.s ELSE lastOp.t

\* C33, as stated: when a swap between variants holding different indices
\* fails because a move throws, the operand that held the alternative whose
\* move threw still holds its original index and value, and the other
\* operand is valueless or still holds its original value.
C33_SwapThrowKeepsOriginal ==
    SwapAcrossThrew =>
        /\ v[SwapThrowHolder].index_ = pre[SwapThrowHolder].index_
        /\ v[SwapThrowHolder].cell = pre[SwapThrowHolder].cell
        /\ \/ valueless_by_exception(v[SwapThrowOther])
           \/ /\ v[SwapThrowOther].index_ = pre[SwapThrowOther].index_
              /\ v[SwapThrowOther].cell = pre[SwapThrowOther].cell

\* C33, amended: a throw in the first step leaves both operands with their
\* original index and value; a throw in the second leaves the object swap was
\* called on with its original index and value and the argument valueless; a
\* throw in the third leaves the object swap was called on valueless and the
\* argument holding the index and value that object had, while the
\* argument's original alternative remains in the temporary.
C33_SwapThrowByStep ==
    SwapAcrossThrew =>
        /\ lastOp.threw \in 1 .. 3
        /\ lastOp.threw = 1 =>
              /\ T.index_ = PreT.index_ /\ T.cell = PreT.cell
              /\ S.index_ = PreS.index_ /\ S.cell = PreS.cell
              /\ lastOp.res = <<0>>
        /\ lastOp.threw = 2 =>
              /\ T.index_ = PreT.index_ /\ T.cell = PreT.cell
              /\ valueless_by_exception(S) /\ Live(S) = {}
              /\ lastOp.res = <<1>>
        /\ lastOp.threw = 3 =>
              /\ valueless_by_exception(T) /\ Live(T) = {}
              /\ S.index_ = PreT.index_ /\ S.cell = PreT.cell
              /\ lastOp.res = <<1>>

\* The third move of a swap has thrown: the argument holds what the other
\* operand held, not its own original alternative.
C33_Witness ==
    /\ SwapAcrossThrew /\ lastOp.threw = 3
    /\ PreT.index_ = 0 /\ PreS.index_ = 1
    /\ valueless_by_exception(T)
    /\ S.index_ = 0 /\ S.cell = PreT.cell

\* C34: swapping two variants that hold the same index swaps the two live
\* alternatives through the alternative's own swap: no alternative is
\* constructed or destroyed and no temporary is used, neither index changes
\* and neither operand becomes valueless, also when the element swap throws;
\* when it completes each operand holds the other's value.
C34_SwapSameIndex ==
    (lastOp.op = "swap" /\ PreT.index_ = PreS.index_ /\ PreT.index_ \in Alts) =>
        /\ lastOp.path = "same"
        /\ lastOp.threw \in {0, 1}
        /\ T.index_ = PreT.index_ /\ S.index_ = PreS.index_
        /\ ~valueless_by_exception(T) /\ ~valueless_by_exception(S)
        /\ Live(T) = Live(PreT) /\ Live(S) = Live(PreS)
        /\ T.log = << >> /\ S.log = << >> /\ lastOp.res = <<0>>
        /\ T.ub = PreT.ub /\ S.ub = PreS.ub
        /\ lastOp.threw = 0 => (T.cell = PreS.cell /\ S.cell = PreT.cell)

\* The element swap of two different variants holding alternative 1 with
\* different values has thrown.
C34_Witness ==
    /\ lastOp.op = "swap" /\ lastOp.path = "same" /\ lastOp.threw = 1
    /\ lastOp.t # lastOp.s
    /\ PreT.index_ = 1 /\ PreS.index_ = 1 /\ PreT.cell # PreS.cell
    /\ T.index_ = 1 /\ S.index_ = 1

\* C35: every alternative object that is constructed is destroyed exactly
\* once by the time the variants involved are destroyed.  An object built in
\* the temporary of an operation can be destroyed only before that operation
\* ends, so at every point between operations: the temporary of the last
\* swap holds no constructed alternative (res = <<0>>), no destructor has run
\* on a member that no object lives in, and a destroyed variant has no
\* constructed member left.
C35_NoLeakNoDoubleDestroy ==
    /\ lastOp.op = "swap" => lastOp.res = <<0>>
    /\ \A x \in Vars :
          /\ ~v[x].ub
          /\ ~v[x].alive => Live(v[x]) = {}

\* The second move of a swap has thrown with the argument's original
\* alternative sitting in the temporary, which nothing destroys.
C35_Witness ==
    /\ lastOp.op = "swap" /\ lastOp.path = "three_step" /\ lastOp.threw = 2
    /\ PreS.index_ \in Alts /\ valueless_by_exception(S)
    /\ T.index_ = PreT.index_
    /\ lastOp.res = <<1>>

\* C36: when optional::operator=(U &&) throws, from T's constructor when the
\* optional held no value or from T's assignment operator when it held one,
\* the optional is left empty: its variant holds monostate, it is not
\* valueless and no T is alive in it.
C36_OptionalAssignThrowsEmpty ==
    (lastOp.op = "optional_assign" /\ lastOp.threw # 0) =>
        /\ T.alive
        /\ T.index_ = 0 /\ ~valueless_by_exception(T)
        /\ Live(T) = {0}
        /\ ~optional_has_value(T).res
        /\ T.ub = PreT.ub

\* The assignment operator of T has thrown in an optional that held a value.
C36_Witness ==
    /\ lastOp.op = "optional_assign" /\ lastOp.threw = 1
    /\ PreT.index_ = 1 /\ Live(PreT) = {1}
    /\ T.index_ = 0 /\ T.log = << <<"dtor", 1>>, <<"ctor", 0>> >>

\* C37: after a destroy-and-construct assignment a = b of semiregular<T> has
\* completed, a holds a value exactly when b held one before the assignment,
\* also when a and b are the same object.
C37_SemiregularAssignKeepsValue ==
    (/\ lastOp.op \in {"semiregular_copy_assign", "semiregular_move_assign"}
     /\ lastOp.threw = 0) =>
        (optional_has_value(T).res <=> optional_has_value(PreS).res)

\* A semiregular holding a value has been copy-assigned to itself and holds
\* none afterwards.
C37_Witness ==
    /\ lastOp.op = "semiregular_copy_assign" /\ lastOp.threw = 0
    /\ lastOp.t = lastOp.s
    /\ PreT.index_ = 1 /\ Live(PreT) = {1}
    /\ T.index_ = 0 /\ ~optional_has_value(T).res

\* An optional that holds no value: its variant holds monostate.
Empty(b) == b.alive /\ b.index_ = 0 /\ Live(b) = {0}

\* The source of the last operation holds what it held before it.
SourceUnchanged == S.alive /\ S.index_ = PreS.index_ /\ S.cell = PreS.cell

\* C38, as stated: a copy- or move-constructed cache is empty, copy
\* assignment leaves the target empty, move assignment leaves target and
\* source empty, move construction empties the source, and copy construction
\* and copy assignment leave the source unchanged.
C38_CacheNeverPropagates ==
    /\ lastOp.op = "cache_copy" => (Empty(T) /\ SourceUnchanged)
    /\ lastOp.op = "cache_move" => (Empty(T) /\ Empty(S))
    /\ lastOp.op = "cache_copy_assign" => (Empty(T) /\ SourceUnchanged)
    /\ lastOp.op = "cache_move_assign" => (Empty(T) /\ Empty(S))

\* C38, amended: as above, except that copy assignment leaves its source
\* unchanged only when the source is another object than the target; a cache
\* copy-assigned to itself is emptied.
C38_CacheNeverPropagatesDistinct ==
    /\ lastOp.op = "cache_copy" => (Empty(T) /\ SourceUnchanged)
    /\ lastOp.op = "cache_move" => (Empty(T) /\ Empty(S))
    /\ lastOp.op = "cache_copy_assign" =>
          /\ Empty(T)
          /\ lastOp.t # lastOp.s => SourceUnchanged
    /\ lastOp.op = "cache_move_assign" => (Empty(T) /\ Empty(S))

\* A cache has been move-constructed from one that held a value.
C38_Witness ==
    /\ lastOp.op = "cache_move"
    /\ PreS.index_ = 1 /\ Live(PreS) = {1}
    /\ Empty(T) /\ Empty(S)

\* C39: every call of variant_raw_visit, from a constructor, an assignment,
\* a swap (its temporary included), a relational operator, hash or visit,
\* passes an index below the number of dispatch-table entries, never the
\* index of a valueless variant: no storage has been visited out of bounds.
C39_RawVisitIndexInBounds ==
    \A x \in Vars : ~v[x].oob

\* A swap has exchanged a valueless variant with one holding the last
\* alternative: the steps that would visit the valueless operand and the
\* empty temporary were skipped, the one visiting the last table entry ran.
C39_Witness ==
    /\ lastOp.op = "swap" /\ lastOp.path = "three_step" /\ lastOp.threw = 0
    /\ valueless_by_exception(PreS) /\ PreT.index_ = NumAlts - 1
    /\ valueless_by_exception(T) /\ S.index_ = NumAlts - 1
    /\ ~T.oob /\ ~S.oob

====
